---------------------------- MODULE Spec2Model ----------------------------
(***************************************************************************)
(* A model of the streaming pipeline of sy (protocol v2): the Receiver's   *)
(* path validation and file handling, the Sender, the Generator, the frame *)
(* reader and the message codec.                                           *)
(*                                                                         *)
(* A path is a sequence of one-character strings, so that the parsing of a *)
(* path into components is modelled and not assumed.  A component is the   *)
(* sequence of characters of its name: RootDir is "/", CurDir is "." and   *)
(* ParentDir is "..".                                                      *)
(***************************************************************************)
EXTENDS Integers, Sequences, FiniteSets, TLC

VARIABLES
    vpRoot,         \* validate_path: the root argument
    vpRel,          \* validate_path: the relative argument
    vpResult,       \* validate_path: the returned Result, NoResult before the call
    config_root,    \* Receiver.config.root
    pending_files,  \* Receiver.pending_files: path -> PendingFile
    stats,          \* Receiver.stats
    fs,             \* the file system: directory entry -> node
    inodes,         \* the file system: the regular files, by inode number
    dropped,        \* the Receiver has been dropped (the session is over)
    handled,        \* the number of messages handled so far
    lastMsg,        \* the message handled last
    lastResult,     \* what handle_message returned for it
    lastOps,        \* the file-system calls it made, in order
    before,         \* the file system and the pending map before it was handled
    held,           \* path in transfer -> what its final path held at its FileEntry
    seen,           \* the types of the messages handled so far
    tally,          \* the transfers counted from the messages and the calls
    sender_compress,\* Sender.config.compress
    src_files,      \* the source tree: path -> bytes of the file
    rx,             \* the work items not yet received by the Sender
    consumed,       \* the work items the Sender has received
    sent,           \* the messages the Sender has passed to on_data, in order
    sender_result,  \* "running", or what Sender::run returned: "ok", "err"
    delivered,      \* how many of the messages sent the Receiver has handled
    gen_delete_enabled, \* Generator.config.delete_enabled
    dest_index,     \* Generator.dest_index: path -> DestFileState
    dest_all,       \* every entry the destination has reported: path -> DestFileState
    dest_in,        \* the DestFileEntry messages still to arrive
    scan,           \* the scanned source entries run has still to go through
    scan_done,      \* the scanned source entries run has gone through
    seen_inodes,    \* Generator.seen_inodes
    tx,             \* the work items sent to the channel, in order
    totals,         \* run's total_files and total_bytes
    gen_pc,         \* where the Generator is: exchange, scan, delete, done, err
    deletes_left,   \* the remaining paths run has collected and not yet sent
    wire,           \* the bytes of the stream read_frame reads from
    wire_pos,       \* how many of them have been read
    frame_len,      \* read_frame's len: the four bytes read, <<>> before
    frame_type,     \* read_frame's msg_type
    frame_alloc,    \* the size of the payload buffer allocated, if it is
    frame_payload,  \* the payload read
    frame_pc,       \* where the frame is: encode, len, check, type, alloc,
                    \* payload, done, decoded
    frame_result,   \* what read_frame returned
    sent_msg,       \* the message that was encoded to the stream, if one was
    got_msg,        \* what decoding the payload read returned
    sess_mode,      \* of the client and of the server: push, pull, none yet
    pc,             \* where the main task of the client and of the server is
    pipe,           \* the frames each side has written that its peer has not read
    wrote,          \* every frame each side has written, in order
    got,            \* every frame each side has read, in order
    scan_q,         \* the chunks scan_dest has sent that are not yet written
    scan_task,      \* the spawned scan_dest: off, running, ok
    result,         \* what push / pull and run_server returned
    delta_ops,      \* send_delta: the ops of the delta, each by its length
    op_idx,         \* send_delta: the ops the loop has gone through
    delta_bytes_len, \* send_delta: the length of the buffer delta_bytes
    data_lens,      \* send_delta: the payload lengths of the Data messages sent
    data_hdrs,      \* the offset and the DELTA flag of each Data message sent
    full_len,       \* send_full: the length of the file
    full_offset,    \* send_full: offset
    full_reads,     \* send_full: the reads made
    dest_entries,   \* scan_dest: the entries the scan returned
    dest_pos,       \* scan_dest: the entries the loop has taken
    batch,          \* scan_dest: the frames in the batch buffer
    on_entry,       \* scan_dest: what the callback was called with, in order
    dest_totals,    \* scan_dest: total_files and total_bytes
    chunk_pc        \* send_delta: idle, loop, done, err, then applied or
                    \* rejected by the Receiver; send_full: read, eof, read_err

pathVars == <<vpRoot, vpRel, vpResult>>

recvVars == <<config_root, pending_files, stats, fs, inodes, dropped, handled,
              lastMsg, lastResult, lastOps, before, held, seen, tally>>

sendVars == <<sender_compress, src_files, rx, consumed, sent, sender_result,
              delivered>>

genVars == <<gen_delete_enabled, dest_index, dest_all, dest_in, scan, scan_done,
             seen_inodes, tx, totals, gen_pc, deletes_left>>

frameVars == <<wire, wire_pos, frame_len, frame_type, frame_alloc, frame_payload,
               frame_pc, frame_result, sent_msg, got_msg>>

sessVars == <<sess_mode, pc, pipe, wrote, got, scan_q, scan_task, result>>

fullVars == <<full_len, full_offset, full_reads>>

scanVars == <<dest_entries, dest_pos, batch, on_entry, dest_totals>>

chunkVars == <<delta_ops, op_idx, delta_bytes_len, data_lens, data_hdrs, fullVars,
               scanVars, chunk_pc>>

vars == <<pathVars, chunkVars, recvVars, sendVars, genVars, frameVars, sessVars>>

-----------------------------------------------------------------------------
(* Bounds of the model *)

MaxPathLen == 5

MaxMsgs == 3

MaxItems == 2

MaxFileLen == 3

MaxBlock == 2

MaxAvail == 2

\* The components of a symlink target.
MaxLinkDepth == 4

\* The frames a pipe holds before a write to it waits.
PipeCap == 2

\* The work items the channel from the Generator to the Sender holds.
JobChannelCap == 1

-----------------------------------------------------------------------------
(* The components at rest: a specification of one component keeps the      *)
(* others in these states.                                                  *)

NoResult == [ok |-> FALSE, error |-> "not called"]

NoStats == [files_ok |-> 0, files_err |-> 0, bytes_transferred |-> 0,
            dirs_created |-> 0, symlinks_created |-> 0, deleted |-> 0]

NoMsg == [type |-> "none"]

NoTally == [renamed |-> 0, errored |-> 0, bytes |-> 0, data |-> <<>>]

PathIdle == vpRoot = <<>> /\ vpRel = <<>> /\ vpResult = NoResult

ScanIdle ==
    /\ dest_entries = <<>> /\ dest_pos = 0 /\ batch = <<>> /\ on_entry = <<>>
    /\ dest_totals = [files |-> 0, bytes |-> 0]

ChunkIdle ==
    /\ ScanIdle
    /\ delta_ops = <<>> /\ op_idx = 0 /\ delta_bytes_len = 0 /\ data_lens = <<>>
    /\ data_hdrs = <<>> /\ full_len = 0 /\ full_offset = 0 /\ full_reads = 0
    /\ chunk_pc = "idle"

RecvIdle ==
    /\ config_root = <<>>
    /\ pending_files = <<>>
    /\ stats = NoStats
    /\ fs = <<>>
    /\ inodes = <<>>
    /\ dropped = TRUE
    /\ handled = 0
    /\ lastMsg = NoMsg
    /\ lastResult = TRUE
    /\ lastOps = <<>>
    /\ before = <<>>
    /\ held = <<>>
    /\ seen = {}
    /\ tally = NoTally

SendIdle ==
    /\ sender_compress = FALSE
    /\ src_files = <<>>
    /\ rx = <<>>
    /\ consumed = <<>>
    /\ sent = <<>>
    /\ sender_result = "ok"
    /\ delivered = 0

GenIdle ==
    /\ gen_delete_enabled = FALSE
    /\ dest_index = <<>>
    /\ dest_all = <<>>
    /\ dest_in = <<>>
    /\ scan = <<>>
    /\ scan_done = <<>>
    /\ seen_inodes = <<>>
    /\ tx = <<>>
    /\ totals = [files |-> 0, bytes |-> 0]
    /\ gen_pc = "done"
    /\ deletes_left = {}

FrameIdle ==
    /\ wire = <<>>
    /\ wire_pos = 0
    /\ frame_len = <<>>
    /\ frame_type = [some |-> FALSE]
    /\ frame_alloc = [some |-> FALSE]
    /\ frame_payload = <<>>
    /\ frame_pc = "done"
    /\ frame_result = NoResult
    /\ sent_msg = NoMsg
    /\ got_msg = NoResult

Sides == {"client", "server"}

SessIdle ==
    /\ sess_mode = [s \in Sides |-> "none"]
    /\ pc = [s \in Sides |-> "off"]
    /\ pipe = [s \in Sides |-> <<>>]
    /\ wrote = [s \in Sides |-> <<>>]
    /\ got = [s \in Sides |-> <<>>]
    /\ scan_q = <<>>
    /\ scan_task = "off"
    /\ result = [s \in Sides |-> NoResult]

-----------------------------------------------------------------------------
(* Sequences *)

Last(s) == s[Len(s)]

Front(s) == SubSeq(s, 1, Len(s) - 1)

IsPrefix(p, s) == Len(p) <= Len(s) /\ SubSeq(s, 1, Len(p)) = p

StrOf(n, Alphabet) == [1..n -> Alphabet]

StrUpTo(n, Alphabet) == UNION {StrOf(k, Alphabet) : k \in 0..n}

-----------------------------------------------------------------------------
(* std::path on Unix, as far as receiver.rs uses it *)

RootDir == <<"/">>

CurDir == <<".">>

ParentDir == <<".", ".">>

\* The segments between the separators of s, the empty ones included.
RECURSIVE SplitSlash(_)
SplitSlash(s) ==
    IF \A i \in 1..Len(s) : s[i] # "/" THEN <<s>>
    ELSE LET i == CHOOSE k \in 1..Len(s) :
                      s[k] = "/" /\ \A j \in 1..(k - 1) : s[j] # "/"
         IN <<SubSeq(s, 1, i - 1)>> \o SplitSlash(SubSeq(s, i + 1, Len(s)))

has_root(s) == Len(s) > 0 /\ s[1] = "/"

is_absolute(s) == has_root(s)

\* Path::components: repeated separators and "." are normalized away, except
\* for a "." at the beginning of a path that has no root.
Components(s) ==
    LET segs == SplitSlash(s)
        keep(i) == /\ segs[i] # <<>>
                   /\ (segs[i] = CurDir => (i = 1 /\ ~has_root(s)))
        RECURSIVE Walk(_)
        Walk(i) == IF i > Len(segs) THEN <<>>
                   ELSE (IF keep(i) THEN <<segs[i]>> ELSE <<>>) \o Walk(i + 1)
    IN (IF has_root(s) THEN <<RootDir>> ELSE <<>>) \o Walk(1)

\* PathBuf::push of a path string onto a path string.
join(base, rel) ==
    IF is_absolute(rel) THEN rel
    ELSE IF base = <<>> THEN rel
    ELSE IF Last(base) = "/" THEN base \o rel
    ELSE base \o <<"/">> \o rel

\* PathBuf::pop on a list of components: nothing to pop from the empty path
\* or from the root.
pop(comps) ==
    IF comps = <<>> \/ Last(comps) = RootDir THEN comps ELSE Front(comps)

\* Path::starts_with, on lists of components.
starts_with(comps, base) == IsPrefix(base, comps)

\* normalize_path: the components of path with "." dropped and ".." folded.
normalize_path(path) ==
    LET comps == Components(path)
        RECURSIVE Fold(_, _)
        Fold(i, normalized) ==
            IF i > Len(comps) THEN normalized
            ELSE IF comps[i] = ParentDir THEN Fold(i + 1, pop(normalized))
            ELSE IF comps[i] = CurDir THEN Fold(i + 1, normalized)
            ELSE Fold(i + 1, Append(normalized, comps[i]))
    IN Fold(1, <<>>)

Ok(v) == [ok |-> TRUE, value |-> v]

Err(e) == [ok |-> FALSE, error |-> e]

validate_path_NoTraversalCheck(root, relative) ==
    IF relative = <<>> THEN Err("Empty path not allowed")
    ELSE IF is_absolute(relative) THEN Err("Absolute paths not allowed")
    ELSE LET full == join(root, relative)
         IN IF ~starts_with(normalize_path(full), normalize_path(root))
            THEN Err("Path escapes root directory")
            ELSE Ok(full)

\* validate_path: the full path of a relative path that is safe, or an error.
validate_path(root, relative) ==
    IF relative = <<>> THEN Err("Empty path not allowed")
    ELSE IF is_absolute(relative) THEN Err("Absolute paths not allowed")
    ELSE IF \E i \in 1..Len(Components(relative)) :
                Components(relative)[i] = ParentDir
         THEN Err("Path traversal not allowed")
    ELSE LET full == join(root, relative)
         IN IF ~starts_with(normalize_path(full), normalize_path(root))
            THEN Err("Path escapes root directory")
            ELSE Ok(full)

-----------------------------------------------------------------------------
(* Bytes and big-endian integers *)

\* u64::to_be_bytes, u32::to_be_bytes, put_u16, ...: n in w bytes.
RECURSIVE BE(_, _)
BE(n, w) == IF w = 0 THEN <<>> ELSE Append(BE(n \div 256, w - 1), n % 256)

\* get_u64, get_u32, get_u16, get_u8 on the bytes read.
RECURSIVE FromBE(_)
FromBE(bytes) ==
    IF bytes = <<>> THEN 0 ELSE 256 * FromBE(Front(bytes)) + Last(bytes)

-----------------------------------------------------------------------------
(* The file system under the Receiver.  A directory entry is named by the  *)
(* list of the components that lead to it, links resolved; <<>> is the     *)
(* working directory.  A regular file is an inode: a name and an open      *)
(* handle may outlive each other.                                          *)

\* v is computed, then K of it: the statements of a function in their order.
Then(v, K(_)) == K(v)

AbsentNode == [kind |-> "absent"]

DirNode == [kind |-> "dir"]

FileNode(i) == [kind |-> "file", ino |-> i]

LinkNode(t) == [kind |-> "link", target |-> t]

Node(f, k) == IF k = <<>> \/ k = <<RootDir>> THEN DirNode
              ELSE IF k \in DOMAIN f THEN f[k] ELSE AbsentNode

Put(f, k, n) == [x \in DOMAIN f \cup {k} |-> IF x = k THEN n ELSE f[x]]

Del(f, K) == [x \in DOMAIN f \ K |-> f[x]]

\* The kernel's walk from directory cur along the components rest: "." stays,
\* ".." goes up, a link is replaced by its target, at most fuel times.
RECURSIVE Walk(_, _, _, _)
Walk(f, cur, rest, fuel) ==
    IF rest = <<>> THEN cur
    ELSE IF Head(rest) = RootDir THEN Walk(f, <<RootDir>>, Tail(rest), fuel)
    ELSE IF Head(rest) = CurDir THEN Walk(f, cur, Tail(rest), fuel)
    ELSE IF Head(rest) = ParentDir THEN Walk(f, pop(cur), Tail(rest), fuel)
    ELSE IF Node(f, Append(cur, Head(rest))).kind = "link" /\ fuel > 0
    THEN Walk(f, cur,
              Components(Node(f, Append(cur, Head(rest))).target) \o Tail(rest),
              fuel - 1)
    ELSE Walk(f, Append(cur, Head(rest)), Tail(rest), fuel)

Fuel(f) == Cardinality(DOMAIN f) + 1

\* The entry a path names, a link at its last component followed.
Target(f, path) == Walk(f, <<>>, Components(path), Fuel(f))

EntryOf(f, comps) ==
    IF comps = <<>> \/ Last(comps) \in {RootDir, CurDir, ParentDir}
    THEN Walk(f, <<>>, comps, Fuel(f))
    ELSE Append(Walk(f, <<>>, Front(comps), Fuel(f)), Last(comps))

\* The entry a path names, a link at its last component not followed.  A
\* trailing "." is no component: "r/." names the entry r.
Entry(f, path) == EntryOf(f, Components(path))

\* Path::parent; HasParent is false where it is None.
HasParent(path) ==
    Components(path) # <<>> /\ Last(Components(path)) # RootDir

RECURSIVE Unparse(_)
Unparse(comps) ==
    IF comps = <<>> THEN <<>>
    ELSE IF Len(comps) = 1 THEN comps[1]
    ELSE IF Front(comps) = <<RootDir>> THEN RootDir \o Last(comps)
    ELSE Unparse(Front(comps)) \o <<"/">> \o Last(comps)

parent(path) == Unparse(Front(Components(path)))

\* The index of the last "." of a name, 0 if it has none.
RECURSIVE LastDot(_, _)
LastDot(name, i) ==
    IF i = 0 THEN 0 ELSE IF name[i] = "." THEN i ELSE LastDot(name, i - 1)

\* Path::file_stem of a file name: the name up to its last ".", the whole
\* name when it has no "." or only a leading one.
file_stem(name) ==
    IF name = ParentDir \/ LastDot(name, Len(name)) <= 1 THEN name
    ELSE SubSeq(name, 1, LastDot(name, Len(name)) - 1)

WithExtension(path, comps, ext) ==
    IF comps = <<>> \/ Last(comps) \in {RootDir, CurDir, ParentDir}
    THEN path
    ELSE Unparse(Append(Front(comps), file_stem(Last(comps)) \o <<".">> \o ext))

\* Path::with_extension: the extension of the last normal component is
\* replaced.  A trailing "." is no component, so the file name of "root/."
\* is "root" and its path with an extension is a sibling of root.
with_extension(path, ext) == WithExtension(path, Components(path), ext)

SyTmp == <<"s", "y", ".", "t", "m", "p">>

\* One file-system call, as lastOps records it: the entry it acts on (and the
\* entry it moves) and whether it succeeded.
Op(name, key, from, ok) == [op |-> name, key |-> key, from |-> from, ok |-> ok]

Log(r, name, key, ok) ==
    [r EXCEPT !.ops = Append(@, Op(name, key, <<>>, ok))]

Good(r) == [r |-> r, ok |-> TRUE]

Bad(r) == [r |-> r, ok |-> FALSE]

IsDir(f, path) == Node(f, Target(f, path)).kind = "dir"

MakeDir(r, e) ==
    IF Node(r.fs, e).kind = "absent" /\ Node(r.fs, Front(e)).kind = "dir"
    THEN Good(Log([r EXCEPT !.fs = Put(@, e, DirNode)], "mkdir", e, TRUE))
    ELSE Bad(Log(r, "mkdir", e, FALSE))

\* fs::create_dir_all: every missing directory down to path is made; a
\* component that exists and is no directory stops it.
RECURSIVE MakeDirs(_, _, _)
MakeDirs(r, comps, n) ==
    IF n > Len(comps) THEN Good(r)
    ELSE IF comps[n] \in {RootDir, CurDir} \/ IsDir(r.fs, Unparse(SubSeq(comps, 1, n)))
    THEN MakeDirs(r, comps, n + 1)
    ELSE Then(MakeDir(r, EntryOf(r.fs, SubSeq(comps, 1, n))), LAMBDA d :
         IF d.ok THEN MakeDirs(d.r, comps, n + 1) ELSE d)

create_dir_all(r, path, fault) ==
    IF path = <<>> THEN Good(r)
    ELSE IF fault = "create_dir_all" THEN Bad(Log(r, "mkdir", Entry(r.fs, path), FALSE))
    ELSE MakeDirs(r, Components(path), 1)

NoFile == [ino |-> 0, pos |-> 0]

\* The entry of an inode in the log of calls: handles have no path.
Handle(file) == <<file.ino>>

OpenAt(r, e, node, fault) ==
    IF \/ fault = "open"
       \/ e = <<>>
       \/ Node(r.fs, Front(e)).kind # "dir"
       \/ node.kind \in {"dir", "link"}
    THEN [r |-> Log(r, "open", e, FALSE), ok |-> FALSE, file |-> NoFile]
    ELSE IF node.kind = "file"
    THEN [r |-> Log([r EXCEPT !.inodes[node.ino] = [data |-> <<>>, synced |-> FALSE]],
                    "open", e, TRUE),
          ok |-> TRUE, file |-> [ino |-> node.ino, pos |-> 0]]
    ELSE [r |-> Log([r EXCEPT !.fs = Put(@, e, FileNode(Len(r.inodes) + 1)),
                              !.inodes = Append(@, [data |-> <<>>, synced |-> FALSE])],
                    "open", e, TRUE),
          ok |-> TRUE, file |-> [ino |-> Len(r.inodes) + 1, pos |-> 0]]

\* OpenOptions::new().write(true).create(true).truncate(true).open(path)
open_truncate(r, path, fault) ==
    Then(Target(r.fs, path), LAMBDA e : OpenAt(r, e, Node(r.fs, e), fault))

\* The bytes of a file after `bytes` are written at `pos`: a gap is zeros,
\* and a write of no bytes leaves the file as it is.
Overwrite(data, pos, bytes) ==
    IF bytes = <<>> THEN data ELSE
    [i \in 1..(IF pos + Len(bytes) > Len(data) THEN pos + Len(bytes) ELSE Len(data)) |->
        IF i > pos /\ i <= pos + Len(bytes) THEN bytes[i - pos]
        ELSE IF i <= Len(data) THEN data[i] ELSE 0]

\* file.write_all(bytes) at the position of the handle.
write_all(r, file, bytes, fault) ==
    IF fault = "write"
    THEN [r |-> Log(r, "write", Handle(file), FALSE), ok |-> FALSE, file |-> file]
    ELSE [r |-> [Log(r, "write", Handle(file), TRUE) EXCEPT !.inodes[file.ino] =
                    [data |-> Overwrite(@.data, file.pos, bytes),
                     synced |-> IF bytes = <<>> THEN @.synced ELSE FALSE]],
          ok |-> TRUE,
          file |-> [file EXCEPT !.pos = @ + Len(bytes)]]

sync_all_Skipped(r, file, fault) ==
    IF fault = "sync_all" THEN Bad(r) ELSE Good(r)

\* file.flush() and file.sync_all()
sync_all(r, file, fault) ==
    IF fault = "sync_all" THEN Bad(Log(r, "sync_all", Handle(file), FALSE))
    ELSE Good(Log([r EXCEPT !.inodes[file.ino].synced = TRUE],
                  "sync_all", Handle(file), TRUE))

Renamed(r, ef, et, ok) == [r EXCEPT !.ops = Append(@, Op("rename", et, ef, ok))]

RenameAt(r, ef, et, src, dst, fault) ==
    IF \/ fault = "rename"
       \/ src.kind = "absent"
       \/ et = <<>> \/ ef = <<>>
       \/ Node(r.fs, Front(et)).kind # "dir"
       \/ (dst.kind = "dir" /\ src.kind # "dir")
       \/ (dst.kind \notin {"dir", "absent"} /\ src.kind = "dir")
       \/ IsPrefix(ef, et) /\ ef # et
    THEN Bad(Renamed(r, ef, et, FALSE))
    ELSE IF ef = et THEN Good(Renamed(r, ef, et, TRUE))
    ELSE Good([Renamed(r, ef, et, TRUE) EXCEPT !.fs = Del(Put(@, et, src), {ef})])

\* fs::rename(from, to)
rename(r, from, to, fault) ==
    Then(Entry(r.fs, from), LAMBDA ef :
    Then(Entry(r.fs, to), LAMBDA et :
    RenameAt(r, ef, et, Node(r.fs, ef), Node(r.fs, et), fault)))

\* fs::remove_file(path): the result is ignored by every caller.
remove_file(r, path) ==
    Then(Entry(r.fs, path), LAMBDA e :
    IF Node(r.fs, e).kind \in {"file", "link"}
    THEN [Log(r, "remove_file", e, TRUE) EXCEPT !.fs = Del(@, {e})]
    ELSE Log(r, "remove_file", e, FALSE))

\* fs::remove_dir_all(path): a directory goes with all below it (all below it
\* only, when the path ends in "." and rmdir refuses it), a link goes alone, a
\* regular file is an error; the result is ignored by the caller.
remove_dir_all(r, path) ==
    Then(Entry(r.fs, path), LAMBDA e :
    IF Node(r.fs, e).kind = "dir" /\ e # <<>>
    THEN IF Last(SplitSlash(path)) = CurDir
         THEN [Log(r, "remove_dir_all", e, FALSE) EXCEPT
                 !.fs = Del(@, {k \in DOMAIN r.fs : IsPrefix(e, k) /\ k # e})]
         ELSE [Log(r, "remove_dir_all", e, TRUE) EXCEPT
                 !.fs = Del(@, {k \in DOMAIN r.fs : IsPrefix(e, k)})]
    ELSE IF Node(r.fs, e).kind = "link"
    THEN [Log(r, "remove_dir_all", e, TRUE) EXCEPT !.fs = Del(@, {e})]
    ELSE Log(r, "remove_dir_all", e, FALSE))

\* tokio::fs::symlink(target, path)
symlink(r, target, path, fault) ==
    Then(Entry(r.fs, path), LAMBDA e :
    IF \/ fault = "symlink"
       \/ e = <<>>
       \/ Node(r.fs, e).kind # "absent"
       \/ Node(r.fs, Front(e)).kind # "dir"
    THEN Bad(Log(r, "symlink", e, FALSE))
    ELSE Good([Log(r, "symlink", e, TRUE) EXCEPT !.fs = Put(@, e, LinkNode(target))]))

\* fs::set_permissions and filetime::set_file_mtime: their failure is only
\* logged, and the model keeps no mode and no time; the call is recorded.
set_metadata(r, name, path) ==
    Then(Target(r.fs, path), LAMBDA e :
    Log(r, name, e, Node(r.fs, e).kind \in {"file", "dir"}))

-----------------------------------------------------------------------------
(* The Receiver.  A handler maps the Receiver's state and the file system, *)
(* r = [fs, inodes, pending, stats, ops], to the state after it and the     *)
(* Result it returns.  fault names the I/O call that fails in this handler, *)
(* if any does.                                                             *)

STATUS_OK == 0

STATUS_ERROR == 1

MAX_DELTA_COPY_SIZE == 16 * 1024 * 1024

\* validate_symlink_target
validate_symlink_target(root, link_path, target) ==
    IF is_absolute(target) THEN Err("Absolute symlink targets not allowed")
    ELSE IF HasParent(link_path)
            /\ ~starts_with(normalize_path(join(parent(link_path), target)),
                            normalize_path(root))
         THEN Err("Symlink target escapes root")
    ELSE Ok(target)

\* TempFileGuard: dropped while armed, it removes the temp file.
TempFileGuard_drop(r, pf) ==
    IF pf.guard THEN remove_file(r, pf.temp_path) ELSE r

\* A PendingFile dropped: its file is closed and its guard dropped.
drop_pending(r, pf) == TempFileGuard_drop(r, pf)

PendingFile(entry, temp_path, file) ==
    [entry |-> entry, temp_path |-> temp_path, file |-> file,
     bytes_written |-> 0, guard |-> TRUE]

\* pending_files.insert: the entry it replaces, if any, is dropped.
insert(r, path, pf) ==
    IF path \in DOMAIN r.pending
    THEN drop_pending([r EXCEPT !.pending = Put(@, path, pf)], r.pending[path])
    ELSE [r EXCEPT !.pending = Put(@, path, pf)]

handle_file_entry(r, entry, fault) ==
    Then(validate_path(config_root, entry.path), LAMBDA v :
    IF ~v.ok THEN Bad(r) ELSE
    Then(IF HasParent(v.value) THEN create_dir_all(r, parent(v.value), fault)
         ELSE Good(r), LAMBDA d :
    IF ~d.ok THEN d ELSE
    Then(with_extension(v.value, SyTmp), LAMBDA temp_path :
    Then(open_truncate(d.r, temp_path, fault), LAMBDA o :
    IF ~o.ok THEN Bad(TempFileGuard_drop(o.r, PendingFile(entry, temp_path, o.file)))
    ELSE Good(insert(o.r, entry.path, PendingFile(entry, temp_path, o.file)))))))

Failed(r, file) == [r |-> r, ok |-> FALSE, file |-> file]

\* One Copy of apply_delta_static, its bounds checked: the bytes read from
\* the original (orig its inode, 0 when a directory was opened) are written.
CopyOp(r, file, orig, offset, size, fault) ==
    IF orig = 0
    THEN IF size > 0 THEN Failed(r, file) ELSE write_all(r, file, <<>>, fault)
    ELSE write_all(r, file, SubSeq(r.inodes[orig].data, offset + 1, offset + size), fault)

\* The loop of apply_delta_static over the ops of delta_data from byte i on.
RECURSIVE DeltaLoop(_, _, _, _, _, _, _)
DeltaLoop(r, file, orig, file_size, d, i, fault) ==
    IF i > Len(d) THEN [r |-> r, ok |-> TRUE, file |-> file]
    ELSE IF d[i] = 0
    THEN IF Len(d) - i < 12 THEN Failed(r, file) ELSE
         Then(FromBE(SubSeq(d, i + 1, i + 8)), LAMBDA offset :
         Then(FromBE(SubSeq(d, i + 9, i + 12)), LAMBDA size :
         IF size > MAX_DELTA_COPY_SIZE THEN Failed(r, file)
         ELSE IF orig # 0 /\ offset > file_size THEN Failed(r, file)
         ELSE IF orig # 0 /\ offset + size > file_size THEN Failed(r, file)
         ELSE Then(CopyOp(r, file, orig, offset, size, fault), LAMBDA w :
              IF ~w.ok THEN w
              ELSE DeltaLoop(w.r, w.file, orig, file_size, d, i + 13, fault))))
    ELSE IF d[i] = 1
    THEN IF Len(d) - i < 4 THEN Failed(r, file) ELSE
         Then(FromBE(SubSeq(d, i + 1, i + 4)), LAMBDA len :
         IF len > MAX_DELTA_COPY_SIZE THEN Failed(r, file)
         ELSE IF Len(d) - i - 4 < len THEN Failed(r, file)
         ELSE Then(write_all(r, file, SubSeq(d, i + 5, i + 4 + len), fault), LAMBDA w :
              IF ~w.ok THEN w
              ELSE DeltaLoop(w.r, w.file, orig, file_size, d, i + 5 + len, fault)))
    ELSE Failed(r, file)

\* apply_delta_static that takes a missing original for an empty one.
apply_delta_static_NoOriginal(r, file, rel_path, delta_data, fault) ==
    Then(validate_path(config_root, rel_path), LAMBDA v :
    IF ~v.ok THEN Failed(r, file) ELSE
    Then(Node(r.fs, Target(r.fs, v.value)), LAMBDA original :
    IF fault = "open_original" THEN Failed(r, file)
    ELSE IF original.kind # "file"
    THEN DeltaLoop(r, file, 0, 0, delta_data, 1, fault)
    ELSE DeltaLoop(r, file, original.ino, Len(r.inodes[original.ino].data),
                   delta_data, 1, fault)))

apply_delta_static(r, file, rel_path, delta_data, fault) ==
    Then(validate_path(config_root, rel_path), LAMBDA v :
    IF ~v.ok THEN Failed(r, file) ELSE
    Then(Node(r.fs, Target(r.fs, v.value)), LAMBDA original :
    IF fault = "open_original" \/ original.kind \notin {"file", "dir"}
    THEN Failed(r, file)
    ELSE IF original.kind = "dir"
    THEN DeltaLoop(r, file, 0, 0, delta_data, 1, fault)
    ELSE DeltaLoop(r, file, original.ino, Len(r.inodes[original.ino].data),
                   delta_data, 1, fault)))

\* handle_data that passes over a Data for a path that is not pending.
handle_data_Lenient(r, data, fault) ==
    IF data.path \notin DOMAIN r.pending THEN Good(r) ELSE
    Then(r.pending[data.path].file, LAMBDA file :
    Then(IF "DELTA" \in data.flags
         THEN apply_delta_static(r, file, data.path, data.data, fault)
         ELSE write_all(r, [file EXCEPT !.pos = data.offset], data.data, fault),
         LAMBDA w :
    IF ~w.ok
    THEN Bad([w.r EXCEPT !.pending[data.path].file = w.file])
    ELSE Good([w.r EXCEPT !.pending[data.path].file = w.file,
                          !.pending[data.path].bytes_written = @ + Len(data.data)])))

handle_data(r, data, fault) ==
    IF data.path \notin DOMAIN r.pending THEN Bad(r) ELSE
    Then(r.pending[data.path].file, LAMBDA file :
    Then(IF "DELTA" \in data.flags
         THEN apply_delta_static(r, file, data.path, data.data, fault)
         ELSE write_all(r, [file EXCEPT !.pos = data.offset], data.data, fault),
         LAMBDA w :
    IF ~w.ok
    THEN Bad([w.r EXCEPT !.pending[data.path].file = w.file])
    ELSE Good([w.r EXCEPT !.pending[data.path].file = w.file,
                          !.pending[data.path].bytes_written = @ + Len(data.data)])))

handle_data_end_RenameAlways(r, end, fault) ==
    IF end.path \notin DOMAIN r.pending THEN Good(r) ELSE
    Then(r.pending[end.path], LAMBDA pending :
    Then(rename([r EXCEPT !.pending = Del(@, {end.path})],
                pending.temp_path, join(config_root, end.path), fault), LAMBDA mv :
    IF ~mv.ok THEN Bad(drop_pending(mv.r, pending))
    ELSE Good([mv.r EXCEPT !.stats.files_ok = @ + 1])))

Renamed_ok_NoBytes(r, pending, full_path) ==
    [set_metadata(
        set_metadata(Log(r, "defuse", Entry(r.fs, pending.temp_path), TRUE),
                     "set_permissions", full_path),
        "set_file_mtime", full_path)
     EXCEPT !.stats.files_ok = @ + 1]

\* After the rename of handle_data_end: the guard is defused, the mode and
\* the mtime are set and the file is counted.
Renamed_ok(r, pending, full_path) ==
    [set_metadata(
        set_metadata(Log(r, "defuse", Entry(r.fs, pending.temp_path), TRUE),
                     "set_permissions", full_path),
        "set_file_mtime", full_path)
     EXCEPT !.stats.files_ok = @ + 1,
            !.stats.bytes_transferred = @ + pending.bytes_written]

\* handle_data_end that takes a DataEnd for a path that is not pending for
\* an error, as handle_data does a Data.
handle_data_end_Strict(r, end, fault) ==
    IF end.path \notin DOMAIN r.pending THEN Bad(r) ELSE
    Then(r.pending[end.path], LAMBDA pending :
    Then(sync_all([r EXCEPT !.pending = Del(@, {end.path})], pending.file, fault),
         LAMBDA s :
    Then(validate_path(config_root, end.path), LAMBDA v :
    IF ~s.ok \/ ~v.ok THEN Bad(drop_pending(s.r, pending))
    ELSE IF end.status = STATUS_OK
    THEN Then(rename(s.r, pending.temp_path, v.value, fault), LAMBDA mv :
         IF ~mv.ok THEN Bad(drop_pending(mv.r, pending))
         ELSE Good(Renamed_ok(mv.r, pending, v.value)))
    ELSE Good([drop_pending(s.r, pending) EXCEPT !.stats.files_err = @ + 1]))))

handle_data_end(r, end, fault) ==
    IF end.path \notin DOMAIN r.pending THEN Good(r) ELSE
    Then(r.pending[end.path], LAMBDA pending :
    Then(sync_all([r EXCEPT !.pending = Del(@, {end.path})], pending.file, fault),
         LAMBDA s :
    Then(validate_path(config_root, end.path), LAMBDA v :
    IF ~s.ok \/ ~v.ok THEN Bad(drop_pending(s.r, pending))
    ELSE IF end.status = STATUS_OK
    THEN Then(rename(s.r, pending.temp_path, v.value, fault), LAMBDA mv :
         IF ~mv.ok THEN Bad(drop_pending(mv.r, pending))
         ELSE Good(Renamed_ok(mv.r, pending, v.value)))
    ELSE Good([drop_pending(s.r, pending) EXCEPT !.stats.files_err = @ + 1]))))

handle_mkdir(r, mkdir, fault) ==
    Then(validate_path(config_root, mkdir.path), LAMBDA v :
    IF ~v.ok THEN Bad(r) ELSE
    Then(create_dir_all(r, v.value, fault), LAMBDA d :
    IF ~d.ok THEN d
    ELSE Good([set_metadata(d.r, "set_permissions", v.value) EXCEPT
                 !.stats.dirs_created = @ + 1])))

handle_symlink(r, sl, fault) ==
    Then(validate_path(config_root, sl.path), LAMBDA v :
    IF ~v.ok THEN Bad(r)
    ELSE IF ~validate_symlink_target(config_root, v.value, sl.target).ok THEN Bad(r)
    ELSE Then(symlink(remove_file(r, v.value), sl.target, v.value, fault), LAMBDA l :
         IF ~l.ok THEN l
         ELSE Good([l.r EXCEPT !.stats.symlinks_created = @ + 1])))

handle_delete(r, delete, fault) ==
    Then(validate_path(config_root, delete.path), LAMBDA v :
    IF ~v.ok THEN Bad(r)
    ELSE Good([(IF delete.is_dir THEN remove_dir_all(r, v.value)
                ELSE remove_file(r, v.value))
               EXCEPT !.stats.deleted = @ + 1]))

\* FileEnd::decode(payload)? and DeleteEnd::decode(payload)? of handle_message:
\* the payload is as long as the u64 fields of the message, or it is an error.
\* A message a peer of this repository has encoded has its fields, and its
\* payload has their length.
end_payload_len(msg) ==
    IF "payload" \in DOMAIN msg THEN Len(msg.payload)
    ELSE IF msg.type = "FileEnd" THEN 8 + 8 ELSE 8

decoded_end(r, msg, least) ==
    IF end_payload_len(msg) < least THEN Bad(r) ELSE Good(r)

\* handle_message that takes a type it has no handler for for an error.
handle_message_Strict(r, msg, fault) ==
    CASE msg.type = "FileEntry" -> handle_file_entry(r, msg, fault)
      [] msg.type = "Data" -> handle_data(r, msg, fault)
      [] msg.type = "DataEnd" -> handle_data_end(r, msg, fault)
      [] msg.type = "Mkdir" -> handle_mkdir(r, msg, fault)
      [] msg.type = "Symlink" -> handle_symlink(r, msg, fault)
      [] msg.type = "Delete" -> handle_delete(r, msg, fault)
      [] msg.type = "FileEnd" -> decoded_end(r, msg, 16)
      [] msg.type = "DeleteEnd" -> decoded_end(r, msg, 8)
      [] OTHER -> Bad(r)

\* handle_message, on a payload that decodes to msg; of FileEnd, DeleteEnd
\* and the types without a handler msg holds the payload as it came.
handle_message(r, msg, fault) ==
    CASE msg.type = "FileEntry" -> handle_file_entry(r, msg, fault)
      [] msg.type = "Data" -> handle_data(r, msg, fault)
      [] msg.type = "DataEnd" -> handle_data_end(r, msg, fault)
      [] msg.type = "Mkdir" -> handle_mkdir(r, msg, fault)
      [] msg.type = "Symlink" -> handle_symlink(r, msg, fault)
      [] msg.type = "Delete" -> handle_delete(r, msg, fault)
      [] msg.type = "FileEnd" -> decoded_end(r, msg, 16)
      [] msg.type = "DeleteEnd" -> decoded_end(r, msg, 8)
      [] OTHER -> Good(r)

\* The Receiver dropped: every pending file is dropped.
RECURSIVE DropAll(_)
DropAll(r) ==
    IF DOMAIN r.pending = {} THEN r
    ELSE Then(CHOOSE q \in DOMAIN r.pending : TRUE, LAMBDA p :
         DropAll(drop_pending([r EXCEPT !.pending = Del(@, {p})], r.pending[p])))

-----------------------------------------------------------------------------
(* The Receiver under any sequence of at most MaxMsgs messages.  A handler *)
(* that returns an error ends the session: run_server_push returns and the *)
(* Receiver is dropped.                                                    *)

RecvRoot == <<"/", "r">>

RootKey == <<RootDir, <<"r">>>>

\* The paths of the messages: a file, a file of the same stem, a file in a
\* directory to make, the root itself, and a path that leaves the root.
RecvPaths ==
    { <<"a", ".", "x">>, <<"a", ".", "y">>, <<"d", "/", "f">>, <<".">>,
      <<".", ".", "/", "e">> }

\* The destination before the session: in the root, a.x holds two bytes, or
\* the root is empty.
InitialTrees ==
    { [fs |-> (RootKey :> DirNode) @@ (Append(RootKey, <<"a", ".", "x">>) :> FileNode(1)),
       inodes |-> << [data |-> <<1, 2>>, synced |-> TRUE] >>],
      [fs |-> (RootKey :> DirNode), inodes |-> <<>>] }

\* Delta payloads: Copy{1, 1}, Insert{<<9>>}, a Copy past the end, and the
\* payloads apply_delta_static rejects: a Copy and an Insert of more than
\* MAX_DELTA_COPY_SIZE, an Insert of more bytes than remain, op headers cut
\* short and an opcode that is neither, some after an op that is applied.
DeltaCopy(offset, size) == <<0>> \o BE(offset, 8) \o BE(size, 4)

DeltaInsert(bytes) == <<1>> \o BE(Len(bytes), 4) \o bytes

DeltaInsertHeader(len) == <<1>> \o BE(len, 4)

BadDeltas ==
    { DeltaInsert(<<9>>) \o DeltaCopy(0, MAX_DELTA_COPY_SIZE + 1),
      DeltaInsertHeader(MAX_DELTA_COPY_SIZE + 1) \o <<9>>,
      DeltaCopy(0, 1) \o DeltaInsertHeader(2) \o <<9>>,
      <<0, 0, 0>>,
      DeltaInsert(<<9>>) \o <<1, 0>>,
      <<2>> }

DataPayloads ==
    { [offset |-> 0, flags |-> {}, data |-> <<7>>],
      [offset |-> 1, flags |-> {}, data |-> <<8>>],
      [offset |-> 0, flags |-> {"DELTA"}, data |-> DeltaCopy(1, 1) \o DeltaInsert(<<9>>)],
      [offset |-> 0, flags |-> {"DELTA"}, data |-> DeltaCopy(2, 1)] }

LinkTargets == { <<"a", ".", "x">>, <<".", ".", "/", "x">> }

Messages ==
    UNION { { [type |-> "FileEntry", path |-> p] } : p \in RecvPaths }
    \cup { [type |-> "Data", path |-> p, offset |-> d.offset, flags |-> d.flags,
            data |-> d.data] : p \in RecvPaths, d \in DataPayloads }
    \cup { [type |-> "Data", path |-> <<"a", ".", "x">>, offset |-> 0,
            flags |-> {"DELTA"}, data |-> d] : d \in BadDeltas }
    \cup { [type |-> "DataEnd", path |-> p, status |-> st] :
             p \in RecvPaths, st \in {STATUS_OK, STATUS_ERROR} }
    \cup { [type |-> "Mkdir", path |-> p] : p \in RecvPaths }
    \cup { [type |-> "Symlink", path |-> p, target |-> t] :
             p \in RecvPaths, t \in LinkTargets }
    \cup { [type |-> "Delete", path |-> p, is_dir |-> b] :
             p \in RecvPaths, b \in BOOLEAN }

IsTransfer(msg) == msg.type \in {"FileEntry", "Data", "DataEnd"}

\* The I/O calls of a handler that can fail.
Faults(msg) ==
    CASE msg.type = "FileEntry" -> {"none", "create_dir_all", "open"}
      [] msg.type = "Data" -> {"none", "write"}
      [] msg.type = "DataEnd" -> {"none", "sync_all", "rename"}
      [] msg.type = "Mkdir" -> {"none", "create_dir_all"}
      [] msg.type = "Symlink" -> {"none", "symlink"}
      [] OTHER -> {"none"}

\* What a final path holds: the entry and, of a file, its bytes.
Content(f, ino, path) ==
    LET node == Node(f, Entry(f, path))
    IN IF node.kind = "file" THEN [kind |-> "file", data |-> ino[node.ino].data]
       ELSE node

RecvInit ==
    /\ PathIdle /\ ChunkIdle /\ SendIdle /\ GenIdle /\ FrameIdle /\ SessIdle
    /\ config_root = RecvRoot
    /\ \E t \in InitialTrees : fs = t.fs /\ inodes = t.inodes
    /\ pending_files = <<>>
    /\ stats = NoStats
    /\ dropped = FALSE
    /\ handled = 0
    /\ lastMsg = NoMsg
    /\ lastResult = TRUE
    /\ lastOps = <<>>
    /\ before = <<>>
    /\ held = <<>>
    /\ seen = {}
    /\ tally = NoTally

\* The transfers as the messages and the calls of the file system show
\* them: a transfer begins at a FileEntry that is accepted, its bytes are
\* the payloads of the Data handled for its path since, and it ends at the
\* DataEnd of its path, renamed into place or ended in error.
Tally(out, msg) ==
    LET known == msg.type \in {"Data", "DataEnd"} /\ msg.path \in DOMAIN tally.data
        renamed == /\ msg.type = "DataEnd" /\ msg.status = STATUS_OK
                   /\ \E i \in DOMAIN out.r.ops :
                         out.r.ops[i].op = "rename" /\ out.r.ops[i].ok
    IN IF msg.type = "FileEntry" /\ out.ok
       THEN [tally EXCEPT !.data = Put(@, msg.path, 0)]
       ELSE IF msg.type = "Data" /\ out.ok /\ known
       THEN [tally EXCEPT !.data[msg.path] = @ + Len(msg.data)]
       ELSE IF msg.type = "DataEnd" /\ known
       THEN [renamed |-> tally.renamed + (IF renamed THEN 1 ELSE 0),
             errored |-> tally.errored
                         + (IF msg.status # STATUS_OK /\ out.ok THEN 1 ELSE 0),
             bytes |-> tally.bytes + (IF renamed THEN tally.data[msg.path] ELSE 0),
             data |-> Del(tally.data, {msg.path})]
       ELSE tally

Applied(out, msg) ==
    /\ tally' = Tally(out, msg)
    /\ fs' = out.r.fs
    /\ inodes' = out.r.inodes
    /\ pending_files' = out.r.pending
    /\ stats' = out.r.stats
    /\ lastOps' = out.r.ops
    /\ lastResult' = out.ok
    /\ lastMsg' = msg
    /\ before' = [fs |-> fs, inodes |-> inodes, pending |-> pending_files]
    /\ seen' = seen \cup {msg.type}
    /\ held' = IF msg.type = "FileEntry" /\ msg.path \notin DOMAIN held
               THEN Put(held, msg.path, Content(fs, inodes, join(config_root, msg.path)))
               ELSE IF /\ msg.type = "DataEnd" /\ msg.status = STATUS_OK /\ out.ok
                       /\ msg.path \in DOMAIN pending_files
               THEN Del(held, {msg.path})
               ELSE held

Now == [fs |-> fs, inodes |-> inodes, pending |-> pending_files,
        stats |-> stats, ops |-> <<>>]

\* run_server_push: one frame read, decoded and handled.
HandleMessage ==
    /\ ~dropped /\ lastResult /\ handled < MaxMsgs
    /\ \E msg \in Messages : \E fault \in Faults(msg) :
          Applied(handle_message(Now, msg, fault), msg)
    /\ handled' = handled + 1
    /\ UNCHANGED <<config_root, dropped, pathVars, chunkVars, sendVars, genVars, frameVars, sessVars>>

\* The session ends, with an error or without: the Receiver is dropped.
DropReceiver ==
    /\ ~dropped
    /\ Applied(Good(DropAll(Now)), [type |-> "drop"])
    /\ dropped' = TRUE
    /\ UNCHANGED <<config_root, handled, pathVars, chunkVars, sendVars, genVars, frameVars, sessVars>>

RecvNext == HandleMessage \/ DropReceiver

SpecRecv == RecvInit /\ [][RecvNext]_vars

\* The messages handle_message has no handler for, their payloads as they
\* come: FileEnd and DeleteEnd whole and cut short, and the types of the
\* other phases with a payload of one byte.
EndPayloads == { <<0, 0, 0, 0, 0, 0, 0, 1, 0, 0, 0, 0, 0, 0, 1, 0>>, <<0, 0, 0, 0, 0, 0, 0, 1>>, <<0, 1>> }

OtherTypes ==
    {"Hello", "DestFileEntry", "DestFileEnd", "Progress", "Error", "Fatal", "Xattr"}

InfoMessages ==
    { [type |-> t, payload |-> p] : t \in {"FileEnd", "DeleteEnd"}, p \in EndPayloads }
    \cup { [type |-> t, payload |-> <<255>>] : t \in OtherTypes }

\* run_server_push: a frame of a type that carries no transfer is read and
\* handled.
HandleInfo ==
    /\ ~dropped /\ lastResult /\ handled < MaxMsgs
    /\ \E msg \in InfoMessages : Applied(handle_message(Now, msg, "none"), msg)
    /\ handled' = handled + 1
    /\ UNCHANGED <<config_root, dropped, pathVars, chunkVars, sendVars, genVars, frameVars, sessVars>>

\* The messages of the transfers of a.x.
TransferMessages ==
    { m \in Messages : IsTransfer(m) /\ m.path = <<"a", ".", "x">> }

\* run_server_push: a frame of the transfer of a.x is read and handled.
HandleTransfer ==
    /\ ~dropped /\ lastResult /\ handled < MaxMsgs
    /\ \E msg \in TransferMessages : \E fault \in Faults(msg) :
          Applied(handle_message(Now, msg, fault), msg)
    /\ handled' = handled + 1
    /\ UNCHANGED <<config_root, dropped, pathVars, chunkVars, sendVars, genVars, frameVars, sessVars>>

InfoNext == HandleTransfer \/ HandleInfo \/ DropReceiver

SpecInfo == RecvInit /\ [][InfoNext]_vars

-----------------------------------------------------------------------------
(* handle_symlink under absolute and relative roots, on every target of at  *)
(* most MaxLinkDepth components.                                            *)

LinkRoots == { <<"/", "r">>, <<"r">>, <<".">> }

LinkPaths == { <<"l">>, <<"d", "/", "l">> }

RECURSIVE JoinComps(_)
JoinComps(comps) ==
    IF Len(comps) = 1 THEN comps[1]
    ELSE comps[1] \o <<"/">> \o JoinComps(Tail(comps))

SymlinkTargets ==
    { JoinComps(c) :
        c \in UNION { [1..n -> {ParentDir, CurDir, <<"x">>, <<"r">>}] :
                      n \in 1..MaxLinkDepth } }
    \cup { <<"/", "x">> }

\* The tree: the root and the directory d in it.
LinkTree(root) ==
    LET key == Components(root)
        dirs == (IF root = CurDir THEN {} ELSE {key})
                \cup {(IF root = CurDir THEN <<>> ELSE key) \o << <<"d">> >>}
    IN [k \in dirs |-> DirNode]

LinkInit ==
    /\ PathIdle /\ ChunkIdle /\ SendIdle /\ GenIdle /\ FrameIdle /\ SessIdle
    /\ config_root \in LinkRoots
    /\ fs = LinkTree(config_root)
    /\ inodes = <<>>
    /\ pending_files = <<>>
    /\ stats = NoStats
    /\ dropped = FALSE
    /\ handled = 0
    /\ lastMsg = NoMsg
    /\ lastResult = TRUE
    /\ lastOps = <<>>
    /\ before = <<>>
    /\ held = <<>>
    /\ seen = {}
    /\ tally = NoTally

\* One Symlink message is handled.
HandleSymlink ==
    /\ ~dropped /\ handled = 0
    /\ \E path \in LinkPaths : \E target \in SymlinkTargets :
          LET msg == [type |-> "Symlink", path |-> path, target |-> target]
          IN Applied(handle_symlink(Now, msg, "none"), msg)
    /\ handled' = 1
    /\ UNCHANGED <<config_root, dropped, pathVars, chunkVars, sendVars, genVars, frameVars,
                   sessVars>>

LinkNext == HandleSymlink \/ DropReceiver

SpecLink == LinkInit /\ [][LinkNext]_vars

-----------------------------------------------------------------------------
(* The delta engine and the block checksums: crate::delta is outside the   *)
(* sources at hand and follows the specification's section 4.5.  The weak  *)
(* checksum is a sum that collides; the strong checksum is taken to be     *)
(* free of collisions.                                                      *)

Min(a, b) == IF a < b THEN a ELSE b

RECURSIVE Sum(_)
Sum(s) == IF s = <<>> THEN 0 ELSE Head(s) + Sum(Tail(s))

Weak(block) == Sum(block) % 4

Strong(block) == block

\* delta::checksum::compute_checksums: one checksum for every block of
\* block_size bytes, the last block shorter.
compute_checksums(content, block_size) ==
    [i \in 1..((Len(content) + block_size - 1) \div block_size) |->
        [offset |-> (i - 1) * block_size,
         weak |-> Weak(SubSeq(content, (i - 1) * block_size + 1,
                              Min(i * block_size, Len(content)))),
         strong |-> Strong(SubSeq(content, (i - 1) * block_size + 1,
                                  Min(i * block_size, Len(content))))]]

Copy(offset, size) == [op |-> "Copy", offset |-> offset, size |-> size]

Insert(data) == [op |-> "Data", data |-> data]

\* The pending literal flushed as an Insert.
Flush(ops, literal) == IF literal = <<>> THEN ops ELSE Append(ops, Insert(literal))

\* A Copy appended, merged with the Copy before it if they are contiguous.
PushCopy(ops, c) ==
    IF ops # <<>> /\ Last(ops).op = "Copy" /\ Last(ops).offset + Last(ops).size = c.offset
    THEN Append(Front(ops), Copy(Last(ops).offset, Last(ops).size + c.size))
    ELSE Append(ops, Copy(c.offset, c.size))

Hits(checksums, window) ==
    {i \in DOMAIN checksums : /\ checksums[i].size > 0
                              /\ checksums[i].weak = Weak(window)
                              /\ checksums[i].strong = Strong(window)}

First(hits) == CHOOSE i \in hits : \A j \in hits : i <= j

\* The scan of the source from position pos on, with the literal pending.
RECURSIVE Scan(_, _, _, _, _, _)
Scan(source, checksums, block_size, pos, literal, ops) ==
    IF pos >= Len(source) THEN Flush(ops, literal) ELSE
    Then(Hits(checksums, SubSeq(source, pos + 1, Min(pos + block_size, Len(source)))),
         LAMBDA hits :
    IF hits = {}
    THEN Scan(source, checksums, block_size, pos + 1,
              Append(literal, source[pos + 1]), ops)
    ELSE Scan(source, checksums, block_size, pos + checksums[First(hits)].size,
              <<>>, PushCopy(Flush(ops, literal), checksums[First(hits)])))

\* delta::generator::generate_delta_streaming
generate_delta_streaming(source, checksums, block_size) ==
    Scan(source, checksums, block_size, 0, <<>>, <<>>)

-----------------------------------------------------------------------------
(* The Sender *)

DATA_CHUNK_SIZE == 256 * 1024

DELTA_CHUNK_SIZE == 16 * 1024 * 1024

None == [some |-> FALSE]

Some(v) == [some |-> TRUE, value |-> v]

FileEntryMsg(job) ==
    [type |-> "FileEntry", path |-> job.path, size |-> job.size, flags |-> {},
     symlink_target |-> None, link_target |-> None]

DataMsg(path, offset, flags, data) ==
    [type |-> "Data", path |-> path, offset |-> offset, flags |-> flags, data |-> data]

DataEndMsg(path, status) == [type |-> "DataEnd", path |-> path, status |-> status]

Sent(msgs) == [ok |-> TRUE, msgs |-> msgs]

Aborted(msgs) == [ok |-> FALSE, msgs |-> msgs]

DataFlags(compress, delta) ==
    (IF delta THEN {"DELTA"} ELSE {}) \cup (IF compress THEN {"COMPRESSED"} ELSE {})

\* The loop of send_full: reads[k] is the number of bytes the k-th read
\* returns, and the read of number `fails` fails (0: none does).
RECURSIVE ReadLoop(_, _, _, _, _, _, _)
ReadLoop(content, path_str, compress, reads, fails, k, offset) ==
    IF fails = k THEN Aborted(<<>>)
    ELSE IF k > Len(reads) THEN Sent(<<>>)
    ELSE Then(ReadLoop(content, path_str, compress, reads, fails, k + 1,
                       offset + reads[k]), LAMBDA rest :
         [rest EXCEPT !.msgs =
            <<DataMsg(path_str, offset, DataFlags(compress, FALSE),
                      SubSeq(content, offset + 1, offset + reads[k]))>> \o @])

\* send_full that emits what the read at the end of the file returned, too.
send_full_EmitAtEof(files, path, path_str, compress, reads, fails) ==
    IF path \notin DOMAIN files THEN Aborted(<<>>)
    ELSE Then(ReadLoop(files[path], path_str, compress, reads, fails, 1, 0),
              LAMBDA body :
         IF ~body.ok THEN body
         ELSE Sent(Append(body.msgs,
                          DataMsg(path_str, Len(files[path]),
                                  DataFlags(compress, FALSE), <<>>))))

\* send_full of the file at path; files is the source tree.
send_full(files, path, path_str, compress, reads, fails) ==
    IF path \notin DOMAIN files THEN Aborted(<<>>)
    ELSE ReadLoop(files[path], path_str, compress, reads, fails, 1, 0)

\* The checksums of the protocol as the engine takes them: the last block
\* has the bytes that remain of the file.
dest_checksums_FullLastBlock(delta_info) ==
    [i \in DOMAIN delta_info.checksums |->
        [index |-> i - 1,
         offset |-> delta_info.checksums[i].offset,
         size |-> delta_info.block_size,
         weak |-> delta_info.checksums[i].weak,
         strong |-> delta_info.checksums[i].strong]]

dest_checksums(delta_info) ==
    [i \in DOMAIN delta_info.checksums |->
        [index |-> i - 1,
         offset |-> delta_info.checksums[i].offset,
         size |-> IF i = Len(delta_info.checksums)
                  THEN Min(IF delta_info.file_size > delta_info.checksums[i].offset
                           THEN delta_info.file_size - delta_info.checksums[i].offset
                           ELSE 0,
                           delta_info.block_size)
                  ELSE delta_info.block_size,
         weak |-> delta_info.checksums[i].weak,
         strong |-> delta_info.checksums[i].strong]]

\* The bytes of one op.
op_bytes(op) ==
    IF op.op = "Copy" THEN <<0>> \o BE(op.offset, 8) \o BE(op.size, 4)
    ELSE <<1>> \o BE(Len(op.data), 4) \o op.data

\* The loop of send_delta over the ops from the i-th on: the payloads of the
\* Data messages, no payload longer than chunk_size unless one op is.
RECURSIVE Chunks(_, _, _, _)
Chunks(ops, i, delta_bytes, chunk_size) ==
    IF i > Len(ops) THEN (IF delta_bytes # <<>> THEN <<delta_bytes>> ELSE <<>>)
    ELSE IF delta_bytes # <<>> /\ Len(delta_bytes) + Len(op_bytes(ops[i])) > chunk_size
    THEN <<delta_bytes>> \o Chunks(ops, i + 1, op_bytes(ops[i]), chunk_size)
    ELSE Chunks(ops, i + 1, delta_bytes \o op_bytes(ops[i]), chunk_size)

send_delta(files, path, path_str, delta_info, compress) ==
    IF path \notin DOMAIN files THEN Aborted(<<>>) ELSE
    Then(Chunks(generate_delta_streaming(files[path], dest_checksums(delta_info),
                                         delta_info.block_size),
                1, <<>>, DELTA_CHUNK_SIZE), LAMBDA payloads :
    Sent([k \in DOMAIN payloads |->
            DataMsg(path_str, 0, DataFlags(compress, TRUE), payloads[k])]))

process_file(files, job, compress, reads, fails) ==
    Then(IF job.need_delta /\ job.checksums.some
         THEN send_delta(files, job.path, job.path, job.checksums.value, compress)
         ELSE send_full(files, job.path, job.path, compress, reads, fails),
         LAMBDA body :
    IF ~body.ok THEN Aborted(<<FileEntryMsg(job)>> \o body.msgs)
    ELSE Sent(<<FileEntryMsg(job)>> \o body.msgs
              \o <<DataEndMsg(job.path, STATUS_OK)>>))

\* The ways a file of n bytes is read: the sizes of the reads, each at least
\* one byte and at most a buffer of DATA_CHUNK_SIZE bytes.
RECURSIVE Reads(_)
Reads(n) ==
    IF n = 0 THEN {<<>>}
    ELSE UNION { { <<k>> \o rest : rest \in Reads(n - k) } :
                 k \in 1..Min(n, DATA_CHUNK_SIZE) }

FileLen(files, path) == IF path \in DOMAIN files THEN Len(files[path]) ELSE 0

\* One turn of the loop of Sender::run on a File work item.
SenderFile ==
    /\ sender_result = "running" /\ rx # <<>> /\ Head(rx).type = "File"
    /\ \E reads \in Reads(FileLen(src_files, Head(rx).path)) :
       \E fails \in 0..(Len(reads) + 1) :
          LET out == process_file(src_files, Head(rx), sender_compress, reads, fails)
          IN /\ sent' = sent \o out.msgs
             /\ sender_result' = IF out.ok THEN "running" ELSE "err"
    /\ consumed' = Append(consumed, Head(rx))
    /\ rx' = Tail(rx)
    /\ UNCHANGED <<sender_compress, src_files, delivered, pathVars, chunkVars, recvVars, genVars, frameVars, sessVars>>

\* One turn of the loop on any other work item: it is passed on.
SenderPassStep ==
    /\ sender_result = "running" /\ rx # <<>> /\ Head(rx).type # "File"
    /\ sent' = Append(sent, Head(rx))
    /\ consumed' = Append(consumed, Head(rx))
    /\ rx' = Tail(rx)
    /\ UNCHANGED <<sender_compress, src_files, sender_result, delivered>>

SenderPass ==
    /\ SenderPassStep
    /\ UNCHANGED <<pathVars, chunkVars, recvVars, genVars, frameVars, sessVars>>

\* The channel is closed and empty: Sender::run returns Ok.
SenderDoneStep ==
    /\ sender_result = "running" /\ rx = <<>>
    /\ sender_result' = "ok"
    /\ UNCHANGED <<sender_compress, src_files, rx, consumed, sent, delivered>>

SenderDone ==
    /\ SenderDoneStep
    /\ UNCHANGED <<pathVars, chunkVars, recvVars, genVars, frameVars, sessVars>>

-----------------------------------------------------------------------------
(* The Sender on any list of at most MaxItems work items *)

PathA == <<"a", ".", "x">>

PathB == <<"b">>

PathGone == <<"c">>

FileJob(path, size, need_delta, checksums) ==
    [type |-> "File", path |-> path, size |-> size,
     need_delta |-> need_delta, checksums |-> checksums]

DeltaInfo(content, block_size) ==
    [block_size |-> block_size, file_size |-> Len(content),
     checksums |-> compute_checksums(content, block_size)]

\* a.x has two bytes, b is empty, c was scanned and is gone.
SendFiles == (PathA :> <<1, 2>>) @@ (PathB :> <<>>)

WorkItems ==
    { FileJob(PathA, 2, FALSE, None),
      FileJob(PathA, 2, TRUE, Some(DeltaInfo(<<2, 2>>, 1))),
      FileJob(PathB, 0, FALSE, None),
      FileJob(PathGone, 1, FALSE, None),
      [type |-> "Mkdir", path |-> <<"d">>],
      [type |-> "Delete", path |-> <<"e">>, is_dir |-> FALSE],
      [type |-> "FileEnd", total_files |-> 1, total_bytes |-> 2] }

SendInit ==
    /\ PathIdle /\ ChunkIdle /\ RecvIdle /\ GenIdle /\ FrameIdle /\ SessIdle
    /\ sender_compress \in BOOLEAN
    /\ src_files = SendFiles
    /\ rx \in UNION { [1..n -> WorkItems] : n \in 0..MaxItems }
    /\ consumed = <<>>
    /\ sent = <<>>
    /\ sender_result = "running"
    /\ delivered = 0

SendNext == SenderFile \/ SenderPass \/ SenderDone

SpecSend == SendInit /\ [][SendNext]_vars

-----------------------------------------------------------------------------
(* One file sent as a delta and applied: the destination holds dst at a.x, *)
(* the source holds src, and the work item carries the checksums of dst.   *)

Contents == StrUpTo(MaxFileLen, {1, 2})

DeltaInit ==
    /\ PathIdle /\ ChunkIdle /\ GenIdle /\ FrameIdle /\ SessIdle
    /\ config_root = RecvRoot
    /\ \E dst \in Contents : \E block_size \in 1..MaxBlock :
          /\ fs = (RootKey :> DirNode) @@ (Append(RootKey, PathA) :> FileNode(1))
          /\ inodes = << [data |-> dst, synced |-> TRUE] >>
          /\ \E src \in Contents :
                /\ src_files = (PathA :> src)
                /\ rx = << FileJob(PathA, Len(src), TRUE,
                                   Some(DeltaInfo(dst, block_size))) >>
    /\ pending_files = <<>>
    /\ stats = NoStats
    /\ dropped = FALSE
    /\ handled = 0
    /\ lastMsg = NoMsg
    /\ lastResult = TRUE
    /\ lastOps = <<>>
    /\ before = <<>>
    /\ held = <<>>
    /\ seen = {}
    /\ tally = NoTally
    /\ sender_compress \in BOOLEAN
    /\ consumed = <<>>
    /\ sent = <<>>
    /\ sender_result = "running"
    /\ delivered = 0

\* The next message sent reaches the Receiver and is handled.
Deliver ==
    /\ ~dropped /\ lastResult /\ delivered < Len(sent)
    /\ Applied(handle_message(Now, sent[delivered + 1], "none"), sent[delivered + 1])
    /\ delivered' = delivered + 1
    /\ handled' = handled + 1
    /\ UNCHANGED <<config_root, dropped, pathVars, chunkVars, sender_compress, src_files,
                   rx, consumed, sent, sender_result, genVars, frameVars, sessVars>>

DeltaNext == SenderFile \/ SenderDone \/ Deliver

SpecDelta == DeltaInit /\ [][DeltaNext]_vars

-----------------------------------------------------------------------------
(* The Generator *)

DELTA_MIN_SIZE == 64 * 1024

\* add_dest_entry: the state the index keeps for a DestFileEntry.
DestFileState(entry) ==
    [size |-> entry.size, mtime |-> entry.mtime, mode |-> entry.mode,
     is_dir |-> "DIR" \in entry.flags,
     delta_info |-> IF "HAS_CHECKSUMS" \in entry.flags
                    THEN Some([block_size |-> entry.block_size,
                               file_size |-> entry.size,
                               checksums |-> entry.checksums])
                    ELSE None]

\* DestIndex::remove: the state removed, if any.
Lookup(index, path) == IF path \in DOMAIN index THEN Some(index[path]) ELSE None

\* A Generator that asks for a delta whatever the size of the source file.
check_delta_for_state_NoMin(dest_state, size) ==
    IF dest_state.some /\ dest_state.value.delta_info.some
    THEN [need_delta |-> TRUE, checksums |-> dest_state.value.delta_info]
    ELSE [need_delta |-> FALSE, checksums |-> None]

check_delta_for_state(dest_state, size) ==
    IF size < DELTA_MIN_SIZE THEN [need_delta |-> FALSE, checksums |-> None]
    ELSE IF dest_state.some /\ dest_state.value.delta_info.some
    THEN [need_delta |-> TRUE, checksums |-> dest_state.value.delta_info]
    ELSE [need_delta |-> FALSE, checksums |-> None]

\* The quick check of run: a regular file the destination has with the same
\* size and mtime.
Unchanged(entry, dest_state) ==
    /\ ~entry.is_dir /\ ~entry.is_symlink
    /\ dest_state.some
    /\ dest_state.value.size = entry.size
    /\ dest_state.value.mtime = entry.mtime

\* The work item of run for an entry that is not skipped.
WorkItem(entry, dest_state) ==
    IF entry.is_dir
    THEN [type |-> "Mkdir", path |-> entry.relative_path, mode |-> 493]
    ELSE IF entry.is_symlink
    THEN [type |-> "Symlink", path |-> entry.relative_path,
          target |-> entry.symlink_target]
    ELSE [type |-> "File", path |-> entry.relative_path, size |-> entry.size,
          mtime |-> entry.mtime, mode |-> 420, inode |-> entry.inode,
          need_delta |-> check_delta_for_state(dest_state, entry.size).need_delta,
          checksums |-> check_delta_for_state(dest_state, entry.size).checksums]

Scanned(index, msgs) == [index |-> index, msgs |-> msgs]

run_entry_SkipBeforeRemove(index, entry) ==
    IF entry.relative_path = <<>> THEN Scanned(index, <<>>)
    ELSE IF Unchanged(entry, Lookup(index, entry.relative_path))
    THEN Scanned(index, <<>>)
    ELSE Scanned(Del(index, {entry.relative_path}),
                 <<WorkItem(entry, Lookup(index, entry.relative_path))>>)

\* One turn of the loop of run over the scanned entries: the index after it
\* and the work item sent, if one is.
run_entry(index, entry) ==
    IF entry.relative_path = <<>> THEN Scanned(index, <<>>)
    ELSE IF Unchanged(entry, Lookup(index, entry.relative_path))
    THEN Scanned(Del(index, {entry.relative_path}), <<>>)
    ELSE Scanned(Del(index, {entry.relative_path}),
                 <<WorkItem(entry, Lookup(index, entry.relative_path))>>)

DeleteItem_File(path, state) == [type |-> "Delete", path |-> path, is_dir |-> FALSE]

DeleteItem(path, state) == [type |-> "Delete", path |-> path, is_dir |-> state.is_dir]

\* Initial Exchange: a DestFileEntry arrives and is added to the index.
AddDestEntry ==
    /\ gen_pc = "exchange" /\ dest_in # <<>>
    /\ dest_index' = Put(dest_index, Head(dest_in).path, DestFileState(Head(dest_in)))
    /\ dest_all' = Put(dest_all, Head(dest_in).path, DestFileState(Head(dest_in)))
    /\ dest_in' = Tail(dest_in)
    /\ UNCHANGED <<gen_delete_enabled, scan, scan_done, seen_inodes, tx, totals,
                   gen_pc, deletes_left, pathVars, chunkVars, recvVars, sendVars, frameVars, sessVars>>

\* DestFileEnd: the Generator is spawned and scans.
GenStart ==
    /\ gen_pc = "exchange" /\ dest_in = <<>>
    /\ gen_pc' = "scan"
    /\ UNCHANGED <<gen_delete_enabled, dest_index, dest_all, dest_in, scan,
                   scan_done, seen_inodes, tx, totals, deletes_left,
                   pathVars, chunkVars, recvVars, sendVars, frameVars, sessVars>>

IsFileItem(msgs) == msgs # <<>> /\ msgs[1].type = "File"

\* A loop that counts every regular file of the scan, the skipped too.
GenEntryStep_CountSkipped ==
    /\ gen_pc = "scan" /\ scan # <<>>
    /\ LET entry == Head(scan)
           out == run_entry(dest_index, entry)
       IN /\ dest_index' = out.index
          /\ tx' = tx \o out.msgs
          /\ totals' = IF entry.relative_path # <<>> /\ ~entry.is_dir
                          /\ ~entry.is_symlink
                       THEN [files |-> totals.files + 1,
                             bytes |-> totals.bytes + entry.size]
                       ELSE totals
          /\ seen_inodes' = IF /\ IsFileItem(out.msgs) /\ entry.nlink > 1
                               /\ entry.inode \notin DOMAIN seen_inodes
                            THEN Put(seen_inodes, entry.inode, entry.relative_path)
                            ELSE seen_inodes
    /\ scan' = Tail(scan)
    /\ scan_done' = Append(scan_done, Head(scan))
    /\ UNCHANGED <<gen_delete_enabled, dest_all,
                   dest_in, gen_pc, deletes_left>>

\* One turn of the loop over the scanned entries.
GenEntryStep ==
    /\ gen_pc = "scan" /\ scan # <<>>
    /\ LET entry == Head(scan)
           out == run_entry(dest_index, entry)
       IN /\ dest_index' = out.index
          /\ tx' = tx \o out.msgs
          /\ totals' = IF IsFileItem(out.msgs)
                       THEN [files |-> totals.files + 1,
                             bytes |-> totals.bytes + entry.size]
                       ELSE totals
          /\ seen_inodes' = IF /\ IsFileItem(out.msgs) /\ entry.nlink > 1
                               /\ entry.inode \notin DOMAIN seen_inodes
                            THEN Put(seen_inodes, entry.inode, entry.relative_path)
                            ELSE seen_inodes
    /\ scan' = Tail(scan)
    /\ scan_done' = Append(scan_done, Head(scan))
    /\ UNCHANGED <<gen_delete_enabled, dest_all,
                   dest_in, gen_pc, deletes_left>>

GenEntry ==
    /\ GenEntryStep
    /\ UNCHANGED <<pathVars, chunkVars, recvVars, sendVars, frameVars, sessVars>>

\* After the loop: FileEnd, and the paths left in the index are collected
\* if deletes are enabled.
GenFileEndStep ==
    /\ gen_pc = "scan" /\ scan = <<>>
    /\ tx' = Append(tx, [type |-> "FileEnd", total_files |-> totals.files,
                         total_bytes |-> totals.bytes])
    /\ gen_pc' = IF gen_delete_enabled THEN "delete" ELSE "done"
    /\ deletes_left' = IF gen_delete_enabled THEN DOMAIN dest_index ELSE {}
    /\ UNCHANGED <<gen_delete_enabled, dest_index, dest_all, dest_in,
                   scan, scan_done, seen_inodes, totals>>

GenFileEnd ==
    /\ GenFileEndStep
    /\ UNCHANGED <<pathVars, chunkVars, recvVars, sendVars, frameVars, sessVars>>

\* A Generator that may send one Delete while it is still in the scan loop.
GenDeleteStep_Early ==
    /\ gen_pc \in {"scan", "delete"}
    /\ gen_pc = "scan" => gen_delete_enabled /\ ~\E i \in 1..Len(tx) : tx[i].type = "Delete"
    /\ \E path \in (IF gen_pc = "scan" THEN DOMAIN dest_index ELSE deletes_left) :
          /\ tx' = Append(tx, DeleteItem(path, dest_index[path]))
          /\ deletes_left' = deletes_left \ {path}
    /\ UNCHANGED <<gen_delete_enabled, dest_index, dest_all, dest_in,
                   scan, scan_done, seen_inodes, totals, gen_pc>>

\* One turn of the loop over the remaining paths, in the order of the map.
GenDeleteStep ==
    /\ gen_pc = "delete"
    /\ \E path \in deletes_left :
          /\ tx' = Append(tx, DeleteItem(path, dest_index[path]))
          /\ deletes_left' = deletes_left \ {path}
    /\ UNCHANGED <<gen_delete_enabled, dest_index, dest_all, dest_in,
                   scan, scan_done, seen_inodes, totals, gen_pc>>

GenDelete ==
    /\ GenDeleteStep
    /\ UNCHANGED <<pathVars, chunkVars, recvVars, sendVars, frameVars, sessVars>>

GenDeleteEndStep ==
    /\ gen_pc = "delete" /\ deletes_left = {}
    /\ tx' = Append(tx, [type |-> "DeleteEnd",
                         count |-> Cardinality(DOMAIN dest_index)])
    /\ gen_pc' = "done"
    /\ UNCHANGED <<gen_delete_enabled, dest_index, dest_all, dest_in,
                   scan, scan_done, seen_inodes, totals, deletes_left>>

GenDeleteEnd ==
    /\ GenDeleteEndStep
    /\ UNCHANGED <<pathVars, chunkVars, recvVars, sendVars, frameVars, sessVars>>

\* tx.send fails, the Sender being gone: run returns the error.
GenSendFailsStep ==
    /\ gen_pc \in {"scan", "delete"}
    /\ gen_pc' = "err"
    /\ UNCHANGED <<gen_delete_enabled, dest_index, dest_all, dest_in, scan,
                   scan_done, seen_inodes, tx, totals, deletes_left>>

GenSendFails ==
    /\ GenSendFailsStep
    /\ UNCHANGED <<pathVars, chunkVars, recvVars, sendVars, frameVars, sessVars>>

-----------------------------------------------------------------------------
(* The Generator on every source scan and destination over two paths *)

GenPaths == { <<"a">>, <<"d">> }

ScanEntry(path, kind, size, mtime) ==
    [relative_path |-> path, size |-> size, mtime |-> mtime,
     is_dir |-> kind = "dir", is_symlink |-> kind = "symlink",
     symlink_target |-> IF kind = "symlink" THEN <<"t">> ELSE <<>>,
     nlink |-> 1, inode |-> 7]

\* What the scan of the source finds at a path.
ScanEntries(path) ==
    { ScanEntry(path, "file", 1, 0), ScanEntry(path, "file", 1, 1),
      ScanEntry(path, "file", DELTA_MIN_SIZE, 0),
      ScanEntry(path, "file", DELTA_MIN_SIZE, 1),
      ScanEntry(path, "dir", 1, 0), ScanEntry(path, "symlink", 1, 0) }

\* A regular file that has a second name: nlink is 2.
LinkedEntry(path, size, mtime) ==
    [ScanEntry(path, "file", size, mtime) EXCEPT !.nlink = 2]

\* The scans: the root or not, then a, then d, each there or not; and the
\* scan of one file under its two names a and d.
Scans ==
    { r \o a \o d :
        r \in { <<>>, <<ScanEntry(<<>>, "dir", 1, 0)>> },
        a \in { <<>> } \cup { <<e>> : e \in ScanEntries(<<"a">>) },
        d \in { <<>> } \cup { <<e>> : e \in ScanEntries(<<"d">>) } }
    \cup { <<LinkedEntry(<<"a">>, 1, 1), LinkedEntry(<<"d">>, 1, 1)>> }

DestEntry(path, size, mtime, flags, block_size, checksums) ==
    [type |-> "DestFileEntry", path |-> path, size |-> size, mtime |-> mtime,
     mode |-> IF "DIR" \in flags THEN 493 ELSE 420, flags |-> flags,
     block_size |-> block_size,
     checksums |-> checksums]

\* What scan_dest reports for a path: a small file, a file with checksums,
\* a directory.
DestEntries(path) ==
    { DestEntry(path, 1, 0, {}, 0, <<>>),
      DestEntry(path, DELTA_MIN_SIZE, 0, {"HAS_CHECKSUMS"}, 4096,
                << [offset |-> 0, weak |-> 1, strong |-> <<1>>] >>),
      DestEntry(path, 1, 0, {"DIR"}, 0, <<>>) }

Dests ==
    { a \o d :
        a \in { <<>> } \cup { <<e>> : e \in DestEntries(<<"a">>) },
        d \in { <<>> } \cup { <<e>> : e \in DestEntries(<<"d">>) } }

GenInit ==
    /\ PathIdle /\ ChunkIdle /\ RecvIdle /\ SendIdle /\ FrameIdle /\ SessIdle
    /\ gen_delete_enabled \in BOOLEAN
    /\ dest_index = <<>>
    /\ dest_all = <<>>
    /\ dest_in \in Dests
    /\ scan \in Scans
    /\ scan_done = <<>>
    /\ seen_inodes = <<>>
    /\ tx = <<>>
    /\ totals = [files |-> 0, bytes |-> 0]
    /\ gen_pc = "exchange"
    /\ deletes_left = {}

GenNext ==
    \/ AddDestEntry \/ GenStart \/ GenEntry \/ GenFileEnd
    \/ GenDelete \/ GenDeleteEnd \/ GenSendFails

SpecGen == GenInit /\ [][GenNext]_vars

-----------------------------------------------------------------------------
(* Frames: len:u32 | type:u8 | payload *)

MAX_FRAME_SIZE == 64 * 1024 * 1024

\* a > b for two u32 given by their four big-endian bytes.
RECURSIVE gt_u32(_, _)
gt_u32(a, b) ==
    IF a = <<>> THEN FALSE
    ELSE IF Head(a) # Head(b) THEN Head(a) > Head(b)
    ELSE gt_u32(Tail(a), Tail(b))

FrameTooLarge_OrEqual(len) == ~gt_u32(BE(MAX_FRAME_SIZE, 4), len)

\* read_frame's check of the length it has read.
FrameTooLarge(len) == gt_u32(len, BE(MAX_FRAME_SIZE, 4))

\* MessageType::from_u8
from_u8(b) == IF b \in 1..16 THEN Some(b) ELSE None

Unread(stream, pos) == SubSeq(stream, pos + 1, Len(stream))

FrameFailed(pos, error) ==
    /\ wire_pos' = pos
    /\ frame_pc' = "done"
    /\ frame_result' = Err(error)

\* r.read_u32(): four bytes, or the stream ends first.
ReadLen ==
    /\ frame_pc = "len"
    /\ IF Len(Unread(wire, wire_pos)) < 4
       THEN /\ FrameFailed(Len(wire), "Failed to read frame length")
            /\ UNCHANGED frame_len
       ELSE /\ frame_len' = SubSeq(wire, wire_pos + 1, wire_pos + 4)
            /\ wire_pos' = wire_pos + 4
            /\ frame_pc' = "check"
            /\ UNCHANGED frame_result
    /\ UNCHANGED <<wire, frame_type, frame_alloc, frame_payload, sent_msg,
                   got_msg, pathVars, chunkVars, recvVars, sendVars, genVars, sessVars>>

\* The frame size is validated.
CheckLen ==
    /\ frame_pc = "check"
    /\ IF FrameTooLarge(frame_len)
       THEN FrameFailed(wire_pos, "Frame size exceeds maximum allowed size")
       ELSE frame_pc' = "type" /\ UNCHANGED <<wire_pos, frame_result>>
    /\ UNCHANGED <<wire, frame_len, frame_type, frame_alloc, frame_payload,
                   sent_msg, got_msg, pathVars, chunkVars, recvVars, sendVars, genVars, sessVars>>

\* r.read_u8() and MessageType::from_u8.
ReadType ==
    /\ frame_pc = "type"
    /\ IF Unread(wire, wire_pos) = <<>>
       THEN /\ FrameFailed(wire_pos, "Failed to read message type")
            /\ UNCHANGED frame_type
       ELSE IF ~from_u8(wire[wire_pos + 1]).some
       THEN /\ FrameFailed(wire_pos + 1, "Unknown message type")
            /\ UNCHANGED frame_type
       ELSE /\ frame_type' = from_u8(wire[wire_pos + 1])
            /\ wire_pos' = wire_pos + 1
            /\ frame_pc' = "alloc"
            /\ UNCHANGED frame_result
    /\ UNCHANGED <<wire, frame_len, frame_alloc, frame_payload, sent_msg,
                   got_msg, pathVars, chunkVars, recvVars, sendVars, genVars, sessVars>>

\* vec![0u8; payload_len]
AllocPayload ==
    /\ frame_pc = "alloc"
    /\ frame_alloc' = Some(FromBE(frame_len))
    /\ frame_pc' = "payload"
    /\ UNCHANGED <<wire, wire_pos, frame_len, frame_type, frame_payload,
                   frame_result, sent_msg, got_msg, pathVars, chunkVars, recvVars,
                   sendVars, genVars, sessVars>>

\* r.read_exact(&mut payload): the buffer is filled, or the stream ends first.
ReadPayload ==
    /\ frame_pc = "payload"
    /\ IF Len(Unread(wire, wire_pos)) < frame_alloc.value
       THEN /\ FrameFailed(Len(wire), "Failed to read frame payload")
            /\ UNCHANGED frame_payload
       ELSE /\ frame_payload' = SubSeq(wire, wire_pos + 1, wire_pos + frame_alloc.value)
            /\ wire_pos' = wire_pos + frame_alloc.value
            /\ frame_pc' = "done"
            /\ frame_result' = Ok(frame_type.value)
    /\ UNCHANGED <<wire, frame_len, frame_type, frame_alloc, sent_msg, got_msg,
                   pathVars, chunkVars, recvVars, sendVars, genVars, sessVars>>

-----------------------------------------------------------------------------
(* read_frame on every short stream *)

\* The first byte of a length and the other three: lengths around 64 MiB,
\* small ones, and the largest.
LenHigh == {0, 3, 4, 5, 128, 255}

LenLow == {0, 1, 2, 255}

LenBytes ==
    { <<a, b, b, c>> : a \in LenHigh, b \in {0, 255}, c \in LenLow }
    \cup { <<4, 0, 255, 0>>, <<4, 1, 0, 0>>, <<3, 255, 255, 255>> }

TypeBytes == {0, 1, 16, 17}

\* The streams: a length cut short, a length alone, or a length, a type
\* byte and up to MaxAvail bytes after it.
Streams ==
    { SubSeq(l, 1, n) : l \in LenBytes, n \in 0..3 }
    \cup LenBytes
    \cup { l \o <<t>> \o p : l \in LenBytes, t \in TypeBytes,
                              p \in StrUpTo(MaxAvail, {0}) }

FrameInit ==
    /\ PathIdle /\ ChunkIdle /\ RecvIdle /\ SendIdle /\ GenIdle /\ SessIdle
    /\ wire \in Streams
    /\ wire_pos = 0
    /\ frame_len = <<>>
    /\ frame_type = None
    /\ frame_alloc = None
    /\ frame_payload = <<>>
    /\ frame_pc = "len"
    /\ frame_result = NoResult
    /\ sent_msg = NoMsg
    /\ got_msg = NoResult

FrameNext == ReadLen \/ CheckLen \/ ReadType \/ AllocPayload \/ ReadPayload

SpecFrame == FrameInit /\ [][FrameNext]_vars

-----------------------------------------------------------------------------
(* The loop of send_delta over the ops of a delta, each op by its length   *)

\* The ops of a delta the loop is run on.
MaxOps == 3

\* The literal bytes of an Insert: one byte, and as many as fill a payload
\* to the byte, to one byte more, and past the largest frame.
InsertLens ==
    { 1, DELTA_CHUNK_SIZE - 18, DELTA_CHUNK_SIZE - 5, DELTA_CHUNK_SIZE - 4,
      MAX_FRAME_SIZE }

\* The bytes of a Copy: one block, and the run of contiguous blocks, merged,
\* of an unchanged stretch of more than MAX_DELTA_COPY_SIZE bytes.
CopySizes == { 1, MAX_DELTA_COPY_SIZE + 1 }

DeltaOps ==
    { [op |-> "Copy", size |-> n] : n \in CopySizes }
    \cup { [op |-> "Data", len |-> n] : n \in InsertLens }

\* The op streams of the engine: a literal is flushed as one Insert when a
\* block matches and at the end of the file, so no Insert follows an Insert.
OpStreams ==
    { ops \in UNION { [1..n -> DeltaOps] : n \in 0..MaxOps } :
        \A i \in 1..(Len(ops) - 1) :
           ~(ops[i].op = "Data" /\ ops[i + 1].op = "Data") }

\* op_bytes.len(): the opcode, offset and size of a Copy; the opcode, the
\* size and the bytes of an Insert.
op_bytes_len(op) == IF op.op = "Copy" THEN 1 + 8 + 4 ELSE 1 + 4 + op.len

\* Data::encode: the length of the payload of the frame of a Data message.
data_payload_len(path_len, data_len) == 2 + path_len + 8 + 1 + 4 + data_len

\* Data { offset, flags, .. }: the offset and whether flags has DELTA.
DataHdr(offset, delta) == [offset |-> offset, delta |-> delta]

\* A Data of send_delta at the offset of send_full: the bytes sent before it.
DeltaHdr_AtCursor == DataHdr(Sum(data_lens), TRUE)

\* send_delta's Data: offset 0, flags with DELTA.
DeltaHdr == DataHdr(0, TRUE)

ChunkInit ==
    /\ PathIdle /\ RecvIdle /\ SendIdle /\ GenIdle /\ FrameIdle /\ SessIdle
    /\ delta_ops \in OpStreams
    /\ op_idx = 0
    /\ delta_bytes_len = 0
    /\ data_lens = <<>>
    /\ data_hdrs = <<>>
    /\ full_len = 0 /\ full_offset = 0 /\ full_reads = 0
    /\ ScanIdle
    /\ chunk_pc = "loop"

\* One turn of the loop over delta.ops: the buffer is sent first if it is
\* not empty and the op would take it past DELTA_CHUNK_SIZE, and the op is
\* added to the buffer.
SendDeltaOp ==
    /\ chunk_pc = "loop" /\ op_idx < Len(delta_ops)
    /\ LET n == op_bytes_len(delta_ops[op_idx + 1])
           flush == delta_bytes_len # 0 /\ delta_bytes_len + n > DELTA_CHUNK_SIZE
       IN /\ data_lens' = IF flush THEN Append(data_lens, delta_bytes_len)
                          ELSE data_lens
          /\ data_hdrs' = IF flush THEN Append(data_hdrs, DeltaHdr) ELSE data_hdrs
          /\ delta_bytes_len' = (IF flush THEN 0 ELSE delta_bytes_len) + n
    /\ op_idx' = op_idx + 1
    /\ UNCHANGED <<delta_ops, fullVars, scanVars, chunk_pc, pathVars, recvVars, sendVars,
                   genVars, frameVars, sessVars>>

\* After the loop: what the buffer holds is sent, and send_delta returns Ok.
SendDeltaFlush ==
    /\ chunk_pc = "loop" /\ op_idx = Len(delta_ops)
    /\ data_lens' = IF delta_bytes_len # 0 THEN Append(data_lens, delta_bytes_len)
                    ELSE data_lens
    /\ data_hdrs' = IF delta_bytes_len # 0 THEN Append(data_hdrs, DeltaHdr)
                    ELSE data_hdrs
    /\ delta_bytes_len' = 0
    /\ chunk_pc' = "done"
    /\ UNCHANGED <<delta_ops, op_idx, fullVars, scanVars, pathVars, recvVars, sendVars,
                   genVars, frameVars, sessVars>>

\* on_data fails, the data channel being closed: send_delta returns the
\* error with the buffer unsent.
SendDeltaFails ==
    /\ chunk_pc = "loop" /\ delta_bytes_len # 0
    /\ chunk_pc' = "err"
    /\ UNCHANGED <<delta_ops, op_idx, delta_bytes_len, data_lens, data_hdrs,
                   fullVars, scanVars, pathVars, recvVars, sendVars, genVars, frameVars,
                   sessVars>>

\* apply_delta_static on an op of the payloads, by its size: a Copy or an
\* Insert of more than MAX_DELTA_COPY_SIZE bytes is an error.
size_accepted(op) ==
    IF op.op = "Copy" THEN op.size <= MAX_DELTA_COPY_SIZE
    ELSE op.len <= MAX_DELTA_COPY_SIZE

\* The Receiver handles the Data messages of the file, each a run of whole
\* ops: it applies the ops in order and returns an error at the first it
\* does not accept.
ApplyDeltas ==
    /\ chunk_pc = "done"
    /\ chunk_pc' = IF \A i \in DOMAIN delta_ops : size_accepted(delta_ops[i])
                   THEN "applied" ELSE "rejected"
    /\ UNCHANGED <<delta_ops, op_idx, delta_bytes_len, data_lens, data_hdrs,
                   fullVars, scanVars, pathVars, recvVars, sendVars, genVars, frameVars,
                   sessVars>>

ChunkNext == SendDeltaOp \/ SendDeltaFlush \/ SendDeltaFails \/ ApplyDeltas

SpecChunk == ChunkInit /\ [][ChunkNext]_vars

-----------------------------------------------------------------------------
(* send_full by the lengths of the file and of the reads *)

MaxReads == 3

\* The lengths of the files: empty, one byte, a buffer to the byte, one byte
\* more or less, and more than two buffers.
FileLens ==
    { 0, 1, DATA_CHUNK_SIZE - 1, DATA_CHUNK_SIZE, DATA_CHUNK_SIZE + 1,
      2 * DATA_CHUNK_SIZE + 1 }

\* What reader.read(&mut buf) returns with `left` bytes to the end of the
\* file: a full buffer of DATA_CHUNK_SIZE or all that is left, or fewer.
ReadSizes(left) ==
    { n \in { 1, 8192, Min(left, DATA_CHUNK_SIZE) } : n <= left }

FullInit ==
    /\ PathIdle /\ RecvIdle /\ SendIdle /\ GenIdle /\ FrameIdle /\ SessIdle
    /\ delta_ops = <<>>
    /\ op_idx = 0
    /\ delta_bytes_len = 0
    /\ data_lens = <<>>
    /\ data_hdrs = <<>>
    /\ full_len \in FileLens
    /\ full_offset = 0
    /\ full_reads = 0
    /\ ScanIdle
    /\ chunk_pc = "read"

\* One turn of the loop of send_full: the read returns n > 0 bytes, they are
\* sent as a Data at offset, and offset advances by n.
SendFullRead ==
    /\ chunk_pc = "read" /\ full_offset < full_len /\ full_reads < MaxReads
    /\ \E n \in ReadSizes(full_len - full_offset) :
          /\ data_lens' = Append(data_lens, n)
          /\ data_hdrs' = Append(data_hdrs, DataHdr(full_offset, FALSE))
          /\ full_offset' = full_offset + n
    /\ full_reads' = full_reads + 1
    /\ UNCHANGED <<delta_ops, op_idx, delta_bytes_len, full_len, chunk_pc,
                   scanVars, pathVars, recvVars, sendVars, genVars, frameVars, sessVars>>

\* The read returns 0 at the end of the file: send_full returns Ok.
SendFullEof ==
    /\ chunk_pc = "read" /\ full_offset = full_len
    /\ chunk_pc' = "eof"
    /\ UNCHANGED <<delta_ops, op_idx, delta_bytes_len, data_lens, data_hdrs,
                   fullVars, scanVars, pathVars, recvVars, sendVars, genVars, frameVars,
                   sessVars>>

\* The read or on_data fails: send_full returns the error.
SendFullFails ==
    /\ chunk_pc = "read"
    /\ chunk_pc' = "read_err"
    /\ UNCHANGED <<delta_ops, op_idx, delta_bytes_len, data_lens, data_hdrs,
                   fullVars, scanVars, pathVars, recvVars, sendVars, genVars, frameVars,
                   sessVars>>

FullNext == SendFullRead \/ SendFullEof \/ SendFullFails

\* The Sender on work items of a few bytes, and send_delta and send_full on
\* files of any length by the lengths alone.
BodyInit == SendInit \/ ChunkInit \/ FullInit

BodyNext == SendNext \/ ChunkNext \/ FullNext

SpecBody == BodyInit /\ [][BodyNext]_vars

-----------------------------------------------------------------------------
(* The messages and their encoding.  A String is the sequence of its       *)
(* UTF-8 bytes, a flags value the set of the names of its bits.            *)

HelloFlags == [PULL |-> 1, DELETE |-> 2, CHECKSUM |-> 4, COMPRESSION |-> 8,
               XATTRS |-> 16, ACLS |-> 32]

FileFlags == [DIR |-> 1, SYMLINK |-> 2, HARDLINK |-> 4, HAS_XATTRS |-> 8,
              SPARSE |-> 16]

DestFileFlags == [DIR |-> 1, HAS_CHECKSUMS |-> 2]

DataFlagBits == [COMPRESSED |-> 1, DELTA |-> 2, FINAL |-> 4]

RECURSIVE bits(_, _)
bits(Flags, set) ==
    IF set = {} THEN 0
    ELSE Then(CHOOSE f \in set : TRUE, LAMBDA f : Flags[f] + bits(Flags, set \ {f}))

from_bits_truncate(Flags, n) == { f \in DOMAIN Flags : (n \div Flags[f]) % 2 = 1 }

\* MessageType as u8
MessageType ==
    [Hello |-> 1, FileEntry |-> 2, FileEnd |-> 3, DestFileEntry |-> 4,
     DestFileEnd |-> 5, Data |-> 6, DataEnd |-> 7, Delete |-> 8,
     DeleteEnd |-> 9, Mkdir |-> 10, Symlink |-> 11, Progress |-> 12,
     Error |-> 13, Fatal |-> 14, Xattr |-> 15, Done |-> 16]

\* put_u16(s.len() as u16) and put_slice(s)
put_str(s) == BE(Len(s) % 65536, 2) \o s

Complement(bytes) == [i \in DOMAIN bytes |-> 255 - bytes[i]]

\* put_i64 and get_i64: two's complement.
put_i64(n) == IF n < 0 THEN Complement(BE(-n - 1, 8)) ELSE BE(n, 8)

get_i64(bytes) ==
    IF bytes[1] >= 128 THEN -FromBE(Complement(bytes)) - 1 ELSE FromBE(bytes)

\* What an Option<String> adds to FileEntry's payload_len and payload.
OptLen(o) == IF o.some THEN 2 + Len(o.value) ELSE 0

put_opt(o) == IF o.some THEN put_str(o.value) ELSE <<>>

RECURSIVE put_checksums(_)
put_checksums(checksums) ==
    IF checksums = <<>> THEN <<>>
    ELSE BE(Head(checksums).offset, 8) \o BE(Head(checksums).weak, 4)
         \o BE(Head(checksums).strong, 8) \o put_checksums(Tail(checksums))

RECURSIVE entries_len(_)
entries_len(entries) ==
    IF entries = <<>> THEN 0
    ELSE 2 + Len(Head(entries).name) + 4 + Len(Head(entries).value)
         + entries_len(Tail(entries))

RECURSIVE put_entries(_)
put_entries(entries) ==
    IF entries = <<>> THEN <<>>
    ELSE put_str(Head(entries).name) \o BE(Len(Head(entries).value), 4)
         \o Head(entries).value \o put_entries(Tail(entries))

\* encode's payload_len, for each message type.
payload_len(m) ==
    CASE m.type = "Hello" -> 2 + 4 + 2 + Len(m.root_path)
      [] m.type = "FileEntry" ->
            2 + Len(m.path) + 8 + 8 + 4 + 8 + 1
            + OptLen(m.symlink_target) + OptLen(m.link_target)
      [] m.type \in {"FileEnd", "DestFileEnd"} -> 16
      [] m.type = "DestFileEntry" ->
            2 + Len(m.path) + 8 + 8 + 4 + 1
            + (IF "HAS_CHECKSUMS" \in m.flags
               THEN 4 + 4 + Len(m.checksums) * 20 ELSE 0)
      [] m.type = "Data" -> 2 + Len(m.path) + 8 + 1 + 4 + Len(m.data)
      [] m.type \in {"DataEnd", "Delete"} -> 2 + Len(m.path) + 1
      [] m.type = "DeleteEnd" -> 8
      [] m.type = "Mkdir" -> 2 + Len(m.path) + 4
      [] m.type = "Symlink" -> 2 + Len(m.path) + 2 + Len(m.target)
      [] m.type \in {"Progress", "Done"} -> 32
      [] m.type = "Error" -> 2 + Len(m.path) + 2 + 2 + Len(m.message)
      [] m.type = "Fatal" -> 2 + 2 + Len(m.message)
      [] m.type = "Xattr" -> 2 + Len(m.path) + 2 + entries_len(m.entries)

\* What encode puts after the type byte, for each message type.
put_payload(m) ==
    CASE m.type = "Hello" ->
            BE(m.version, 2) \o BE(bits(HelloFlags, m.flags), 4)
            \o put_str(m.root_path)
      [] m.type = "FileEntry" ->
            put_str(m.path) \o BE(m.size, 8) \o put_i64(m.mtime)
            \o BE(m.mode, 4) \o BE(m.inode, 8) \o BE(bits(FileFlags, m.flags), 1)
            \o put_opt(m.symlink_target) \o put_opt(m.link_target)
      [] m.type \in {"FileEnd", "DestFileEnd"} ->
            BE(m.total_files, 8) \o BE(m.total_bytes, 8)
      [] m.type = "DestFileEntry" ->
            put_str(m.path) \o BE(m.size, 8) \o put_i64(m.mtime)
            \o BE(m.mode, 4) \o BE(bits(DestFileFlags, m.flags), 1)
            \o (IF "HAS_CHECKSUMS" \in m.flags
                THEN BE(m.block_size, 4) \o BE(Len(m.checksums), 4)
                     \o put_checksums(m.checksums)
                ELSE <<>>)
      [] m.type = "Data" ->
            put_str(m.path) \o BE(m.offset, 8)
            \o BE(bits(DataFlagBits, m.flags), 1) \o BE(Len(m.data), 4) \o m.data
      [] m.type = "DataEnd" -> put_str(m.path) \o BE(m.status, 1)
      [] m.type = "Delete" -> put_str(m.path) \o BE(IF m.is_dir THEN 1 ELSE 0, 1)
      [] m.type = "DeleteEnd" -> BE(m.count, 8)
      [] m.type = "Mkdir" -> put_str(m.path) \o BE(m.mode, 4)
      [] m.type = "Symlink" -> put_str(m.path) \o put_str(m.target)
      [] m.type = "Progress" ->
            BE(m.files, 8) \o BE(m.bytes, 8) \o BE(m.files_total, 8)
            \o BE(m.bytes_total, 8)
      [] m.type = "Error" -> put_str(m.path) \o BE(m.code, 2) \o put_str(m.message)
      [] m.type = "Fatal" -> BE(m.code, 2) \o put_str(m.message)
      [] m.type = "Xattr" ->
            put_str(m.path) \o BE(Len(m.entries) % 65536, 2)
            \o put_entries(m.entries)
      [] m.type = "Done" ->
            BE(m.files_ok, 8) \o BE(m.files_err, 8) \o BE(m.bytes, 8)
            \o BE(m.duration_ms, 8)

\* X::encode: the frame of a message.
encode(m) == BE(payload_len(m), 4) \o <<MessageType[m.type]>> \o put_payload(m)

\* A read of more bytes than remain in the payload: Buf::get_* and
\* copy_to_bytes panic, decode returns nothing.
Panic == [ok |-> FALSE, error |-> "panic: read past the end of the payload"]

\* payload.get_u16(), get_u32(), get_u64(), get_u8(): the number read from
\* the first n bytes, and the bytes that remain.
get(payload, n, K(_, _)) ==
    IF Len(payload) < n THEN Panic
    ELSE K(FromBE(SubSeq(payload, 1, n)), SubSeq(payload, n + 1, Len(payload)))

\* String::from_utf8(payload.copy_to_bytes(n)): the strings here are ASCII.
get_string(payload, n, error, K(_, _)) ==
    IF Len(payload) < n THEN Panic
    ELSE IF \E i \in 1..n : payload[i] >= 128 THEN Err(error)
    ELSE K(SubSeq(payload, 1, n), SubSeq(payload, n + 1, Len(payload)))

\* payload.get_i64()
get_signed(payload, K(_, _)) ==
    IF Len(payload) < 8 THEN Panic
    ELSE K(get_i64(SubSeq(payload, 1, 8)), SubSeq(payload, 9, Len(payload)))

\* decode of the messages that begin with a path: the path, then the rest.
path_decode(name, payload, least, K(_, _)) ==
    IF Len(payload) < 2 THEN Err(name \o " payload too short") ELSE
    get(payload, 2, LAMBDA path_len, p1 :
    IF Len(p1) < path_len + least THEN Err(name \o " payload truncated")
    ELSE get_string(p1, path_len, "Invalid UTF-8 in path", K))

\* decode of the messages of two or four u64.
u64s_decode(name, payload, n, K(_)) ==
    IF Len(payload) < 8 * n THEN Err(name \o " payload too short")
    ELSE Ok(K([i \in 1..n |-> FromBE(SubSeq(payload, 8 * i - 7, 8 * i))]))

\* FileEntry::decode on symlink_target and link_target: present if the flag
\* is set.
get_opt(payload, present, what, K(_, _)) ==
    IF ~present THEN K(None, payload)
    ELSE IF Len(payload) < 2 THEN Err(what \o " target length truncated")
    ELSE get(payload, 2, LAMBDA len, p1 :
         IF Len(p1) < len THEN Err(what \o " target truncated")
         ELSE get_string(p1, len, "Invalid UTF-8 in target", LAMBDA s, p2 :
              K(Some(s), p2)))

FileEntry_decode(payload) ==
    path_decode("FileEntry", payload, 29, LAMBDA path, p2 :
    get(p2, 8, LAMBDA size, p3 :
    get_signed(p3, LAMBDA mtime, p4 :
    get(p4, 4, LAMBDA mode, p5 :
    get(p5, 8, LAMBDA inode, p6 :
    get(p6, 1, LAMBDA b, p7 :
    get_opt(p7, "SYMLINK" \in from_bits_truncate(FileFlags, b), "symlink",
            LAMBDA symlink_target, p8 :
    get_opt(p8, "HARDLINK" \in from_bits_truncate(FileFlags, b), "hardlink",
            LAMBDA link_target, p9 :
    Ok([type |-> "FileEntry", path |-> path, size |-> size,
        mtime |-> mtime, mode |-> mode, inode |-> inode,
        flags |-> from_bits_truncate(FileFlags, b),
        symlink_target |-> symlink_target, link_target |-> link_target])))))))))

\* BlockChecksum::SIZE
BlockChecksumSize == 20

RECURSIVE get_checksums(_, _, _)
get_checksums(payload, count, checksums) ==
    IF count = 0 THEN Ok(checksums)
    ELSE get(payload, 8, LAMBDA offset, p1 :
         get(p1, 4, LAMBDA weak, p2 :
         get(p2, 8, LAMBDA strong, p3 :
         get_checksums(p3, count - 1,
                       Append(checksums, [offset |-> offset, weak |-> weak,
                                          strong |-> strong])))))

\* DestFileEntry::decode without the check of count * SIZE against the bytes
\* that remain.
DestFileEntry_decode_NoCountCheck(payload) ==
    path_decode("DestFileEntry", payload, 21, LAMBDA path, p2 :
    get(p2, 8, LAMBDA size, p3 :
    get_signed(p3, LAMBDA mtime, p4 :
    get(p4, 4, LAMBDA mode, p5 :
    get(p5, 1, LAMBDA b, p6 :
    IF "HAS_CHECKSUMS" \notin from_bits_truncate(DestFileFlags, b)
    THEN Ok([type |-> "DestFileEntry", path |-> path, size |-> size,
             mtime |-> mtime, mode |-> mode,
             flags |-> from_bits_truncate(DestFileFlags, b),
             block_size |-> 0, checksums |-> <<>>])
    ELSE IF Len(p6) < 8 THEN Err("DestFileEntry checksum header truncated") ELSE
    get(p6, 4, LAMBDA bs, p7 :
    get(p7, 4, LAMBDA count, p8 :
    Then(get_checksums(p8, count, <<>>), LAMBDA checksums :
    IF ~checksums.ok THEN checksums
    ELSE Ok([type |-> "DestFileEntry", path |-> path, size |-> size,
             mtime |-> mtime, mode |-> mode,
             flags |-> from_bits_truncate(DestFileFlags, b),
             block_size |-> bs, checksums |-> checksums.value])))))))))

DestFileEntry_decode(payload) ==
    path_decode("DestFileEntry", payload, 21, LAMBDA path, p2 :
    get(p2, 8, LAMBDA size, p3 :
    get_signed(p3, LAMBDA mtime, p4 :
    get(p4, 4, LAMBDA mode, p5 :
    get(p5, 1, LAMBDA b, p6 :
    IF "HAS_CHECKSUMS" \notin from_bits_truncate(DestFileFlags, b)
    THEN Ok([type |-> "DestFileEntry", path |-> path, size |-> size,
             mtime |-> mtime, mode |-> mode,
             flags |-> from_bits_truncate(DestFileFlags, b),
             block_size |-> 0, checksums |-> <<>>])
    ELSE IF Len(p6) < 8 THEN Err("DestFileEntry checksum header truncated") ELSE
    get(p6, 4, LAMBDA bs, p7 :
    get(p7, 4, LAMBDA count, p8 :
    IF Len(p8) < count * BlockChecksumSize
    THEN Err("DestFileEntry checksums truncated") ELSE
    Then(get_checksums(p8, count, <<>>), LAMBDA checksums :
    IF ~checksums.ok THEN checksums
    ELSE Ok([type |-> "DestFileEntry", path |-> path, size |-> size,
             mtime |-> mtime, mode |-> mode,
             flags |-> from_bits_truncate(DestFileFlags, b),
             block_size |-> bs, checksums |-> checksums.value])))))))))

RECURSIVE get_entries(_, _, _)
get_entries(payload, count, entries) ==
    IF count = 0 THEN Ok(entries)
    ELSE IF Len(payload) < 2 THEN Err("Xattr entry name length truncated") ELSE
    get(payload, 2, LAMBDA name_len, p1 :
    IF Len(p1) < name_len + 4 THEN Err("Xattr entry truncated") ELSE
    get_string(p1, name_len, "Invalid UTF-8 in Xattr name", LAMBDA name, p2 :
    get(p2, 4, LAMBDA value_len, p3 :
    IF Len(p3) < value_len THEN Err("Xattr entry value truncated")
    ELSE get_entries(SubSeq(p3, value_len + 1, Len(p3)), count - 1,
                     Append(entries, [name |-> name,
                                      value |-> SubSeq(p3, 1, value_len)])))))

Xattr_decode(payload) ==
    path_decode("Xattr", payload, 2, LAMBDA path, p2 :
    get(p2, 2, LAMBDA count, p3 :
    Then(get_entries(p3, count, <<>>), LAMBDA entries :
    IF ~entries.ok THEN entries
    ELSE Ok([type |-> "Xattr", path |-> path, entries |-> entries.value]))))

\* X::decode of the payload, for the message type read_frame returned.
decode(msg_type, payload) ==
    CASE msg_type = MessageType.Hello ->
            IF Len(payload) < 8 THEN Err("Hello payload too short") ELSE
            get(payload, 2, LAMBDA version, p1 :
            get(p1, 4, LAMBDA b, p2 :
            get(p2, 2, LAMBDA path_len, p3 :
            IF Len(p3) < path_len THEN Err("Hello path truncated") ELSE
            get_string(p3, path_len, "Invalid UTF-8 in Hello path", LAMBDA root_path, p4 :
            Ok([type |-> "Hello", version |-> version,
                flags |-> from_bits_truncate(HelloFlags, b),
                root_path |-> root_path])))))
      [] msg_type = MessageType.FileEntry -> FileEntry_decode(payload)
      [] msg_type = MessageType.FileEnd ->
            u64s_decode("FileEnd", payload, 2, LAMBDA v :
            [type |-> "FileEnd", total_files |-> v[1], total_bytes |-> v[2]])
      [] msg_type = MessageType.DestFileEntry -> DestFileEntry_decode(payload)
      [] msg_type = MessageType.DestFileEnd ->
            u64s_decode("DestFileEnd", payload, 2, LAMBDA v :
            [type |-> "DestFileEnd", total_files |-> v[1], total_bytes |-> v[2]])
      [] msg_type = MessageType.Data ->
            path_decode("Data", payload, 13, LAMBDA path, p2 :
            get(p2, 8, LAMBDA offset, p3 :
            get(p3, 1, LAMBDA b, p4 :
            get(p4, 4, LAMBDA data_len, p5 :
            IF Len(p5) < data_len THEN Err("Data content truncated")
            ELSE Ok([type |-> "Data", path |-> path, offset |-> offset,
                     flags |-> from_bits_truncate(DataFlagBits, b),
                     data |-> SubSeq(p5, 1, data_len)])))))
      [] msg_type = MessageType.DataEnd ->
            path_decode("DataEnd", payload, 1, LAMBDA path, p2 :
            Ok([type |-> "DataEnd", path |-> path, status |-> p2[1]]))
      [] msg_type = MessageType.Delete ->
            path_decode("Delete", payload, 1, LAMBDA path, p2 :
            Ok([type |-> "Delete", path |-> path, is_dir |-> p2[1] # 0]))
      [] msg_type = MessageType.DeleteEnd ->
            u64s_decode("DeleteEnd", payload, 1, LAMBDA v :
            [type |-> "DeleteEnd", count |-> v[1]])
      [] msg_type = MessageType.Mkdir ->
            path_decode("Mkdir", payload, 4, LAMBDA path, p2 :
            Ok([type |-> "Mkdir", path |-> path,
                mode |-> FromBE(SubSeq(p2, 1, 4))]))
      [] msg_type = MessageType.Symlink ->
            path_decode("Symlink", payload, 2, LAMBDA path, p2 :
            get(p2, 2, LAMBDA target_len, p3 :
            IF Len(p3) < target_len THEN Err("Symlink target truncated") ELSE
            get_string(p3, target_len, "Invalid UTF-8 in Symlink target", LAMBDA target, p4 :
            Ok([type |-> "Symlink", path |-> path, target |-> target]))))
      [] msg_type = MessageType.Progress ->
            u64s_decode("Progress", payload, 4, LAMBDA v :
            [type |-> "Progress", files |-> v[1], bytes |-> v[2],
             files_total |-> v[3], bytes_total |-> v[4]])
      [] msg_type = MessageType.Error ->
            path_decode("Error", payload, 4, LAMBDA path, p2 :
            get(p2, 2, LAMBDA code, p3 :
            get(p3, 2, LAMBDA msg_len, p4 :
            IF Len(p4) < msg_len THEN Err("Error message truncated") ELSE
            get_string(p4, msg_len, "Invalid UTF-8 in Error message", LAMBDA message, p5 :
            Ok([type |-> "Error", path |-> path, code |-> code,
                message |-> message])))))
      [] msg_type = MessageType.Fatal ->
            IF Len(payload) < 4 THEN Err("Fatal payload too short") ELSE
            get(payload, 2, LAMBDA code, p1 :
            get(p1, 2, LAMBDA msg_len, p2 :
            IF Len(p2) < msg_len THEN Err("Fatal message truncated") ELSE
            get_string(p2, msg_len, "Invalid UTF-8 in Fatal message", LAMBDA message, p3 :
            Ok([type |-> "Fatal", code |-> code, message |-> message]))))
      [] msg_type = MessageType.Xattr -> Xattr_decode(payload)
      [] msg_type = MessageType.Done ->
            u64s_decode("Done", payload, 4, LAMBDA v :
            [type |-> "Done", files_ok |-> v[1], files_err |-> v[2],
             bytes |-> v[3], duration_ms |-> v[4]])

\* A message is encoded and written to the stream.
Encode ==
    /\ frame_pc = "encode"
    /\ wire' = encode(sent_msg)
    /\ frame_pc' = "len"
    /\ UNCHANGED <<wire_pos, frame_len, frame_type, frame_alloc, frame_payload,
                   frame_result, sent_msg, got_msg, pathVars, chunkVars, recvVars,
                   sendVars, genVars, sessVars>>

\* The caller of read_frame decodes the payload by the type returned.
Decode ==
    /\ frame_pc = "done" /\ frame_result.ok
    /\ got_msg' = decode(frame_result.value, frame_payload)
    /\ frame_pc' = "decoded"
    /\ UNCHANGED <<wire, wire_pos, frame_len, frame_type, frame_alloc,
                   frame_payload, frame_result, sent_msg, pathVars, chunkVars, recvVars,
                   sendVars, genVars, sessVars>>

-----------------------------------------------------------------------------
(* Every message of a small set, encoded, read and decoded *)

\* "" and "a"
Strings == { <<>>, <<97>> }

\* "t"
TargetString == <<116>>

BlockChecksum(offset) == [offset |-> offset, weak |-> 258, strong |-> 65537]

XattrEntry(value) == [name |-> <<117>>, value |-> value]

CodecMessages ==
    { [type |-> "Hello", version |-> 2, flags |-> f, root_path |-> p] :
        f \in { {}, {"PULL", "DELETE"}, DOMAIN HelloFlags }, p \in Strings }
    \cup { [type |-> "FileEntry", path |-> <<97>>, size |-> 256, mtime |-> t,
            mode |-> 420, inode |-> 7, flags |-> f, symlink_target |-> s,
            link_target |-> l] :
        t \in {-1, 0}, f \in SUBSET {"DIR", "SYMLINK", "HARDLINK"},
        s \in {None, Some(TargetString)}, l \in {None, Some(<<97>>)} }
    \cup { [type |-> t, total_files |-> n, total_bytes |-> 256 * n] :
        t \in {"FileEnd", "DestFileEnd"}, n \in {0, 1} }
    \cup { [type |-> "DestFileEntry", path |-> <<97>>, size |-> 65536,
            mtime |-> t, mode |-> 420, flags |-> f, block_size |-> b,
            checksums |-> c] :
        t \in {-2, 1}, f \in SUBSET {"DIR", "HAS_CHECKSUMS"}, b \in {0, 4096},
        c \in { <<>>, <<BlockChecksum(0), BlockChecksum(4096)>> } }
    \cup { [type |-> "Data", path |-> p, offset |-> 1, flags |-> f, data |-> d] :
        p \in Strings, f \in SUBSET DOMAIN DataFlagBits, d \in { <<>>, <<0, 255>> } }
    \cup { [type |-> "DataEnd", path |-> <<97>>, status |-> s] : s \in {0, 1, 2} }
    \cup { [type |-> "Delete", path |-> <<97>>, is_dir |-> d] : d \in BOOLEAN }
    \cup { [type |-> "DeleteEnd", count |-> n] : n \in {0, 257} }
    \cup { [type |-> "Mkdir", path |-> <<97>>, mode |-> n] : n \in {0, 493} }
    \cup { [type |-> "Symlink", path |-> <<97>>, target |-> t] : t \in Strings }
    \cup { [type |-> "Progress", files |-> n, bytes |-> 2, files_total |-> 3,
            bytes_total |-> 4] : n \in {0, 1} }
    \cup { [type |-> "Error", path |-> p, code |-> 3, message |-> s] :
        p \in Strings, s \in Strings }
    \cup { [type |-> "Fatal", code |-> c, message |-> s] :
        c \in {1, 256}, s \in Strings }
    \cup { [type |-> "Xattr", path |-> <<97>>, entries |-> e] :
        e \in { <<>>, <<XattrEntry(<<>>)>>,
                <<XattrEntry(<<1>>), XattrEntry(<<2, 3>>)>> } }
    \cup { [type |-> "Done", files_ok |-> n, files_err |-> 1, bytes |-> 512,
            duration_ms |-> 9] : n \in {0, 1} }

CodecInit ==
    /\ PathIdle /\ ChunkIdle /\ RecvIdle /\ SendIdle /\ GenIdle /\ SessIdle
    /\ sent_msg \in CodecMessages
    /\ wire = <<>>
    /\ wire_pos = 0
    /\ frame_len = <<>>
    /\ frame_type = None
    /\ frame_alloc = None
    /\ frame_payload = <<>>
    /\ frame_pc = "encode"
    /\ frame_result = NoResult
    /\ got_msg = NoResult

CodecNext ==
    \/ Encode \/ ReadLen \/ CheckLen \/ ReadType \/ AllocPayload
    \/ ReadPayload \/ Decode

SpecCodec == CodecInit /\ [][CodecNext]_vars

-----------------------------------------------------------------------------
(* decode on payloads that are shorter than their length fields say *)

\* DestFileEntry::decode up to its Vec::with_capacity(count).
capacity_asked(payload) ==
    path_decode("DestFileEntry", payload, 21, LAMBDA path, p2 :
    get(p2, 8, LAMBDA size, p3 :
    get_signed(p3, LAMBDA mtime, p4 :
    get(p4, 4, LAMBDA mode, p5 :
    get(p5, 1, LAMBDA b, p6 :
    IF "HAS_CHECKSUMS" \notin from_bits_truncate(DestFileFlags, b) THEN Ok(None)
    ELSE IF Len(p6) < 8 THEN Ok(None) ELSE
    get(p6, 4, LAMBDA bs, p7 :
    get(p7, 4, LAMBDA count, p8 :
    IF Len(p8) < count * BlockChecksumSize THEN Ok(None)
    ELSE Ok(Some(count)))))))))

\* The capacity DestFileEntry::decode asks of Vec::with_capacity, None where
\* it returns before the allocation.
with_capacity(payload) ==
    Then(capacity_asked(payload), LAMBDA r : IF r.ok THEN r.value ELSE None)


\* Where the last byte of each length or count field of put_payload(m) is.
LengthFields(m) ==
    LET after_path == 2 + Len(m.path)
    IN CASE m.type = "Hello" -> {8}
         [] m.type = "FileEntry" ->
               {2}
               \cup (IF "SYMLINK" \in m.flags /\ m.symlink_target.some
                     THEN {after_path + 29 + 2} ELSE {})
               \cup (IF "HARDLINK" \in m.flags /\ m.link_target.some
                        /\ ("SYMLINK" \in m.flags <=> m.symlink_target.some)
                     THEN {after_path + 29 + OptLen(m.symlink_target) + 2}
                     ELSE {})
         [] m.type = "DestFileEntry" ->
               {2} \cup (IF "HAS_CHECKSUMS" \in m.flags
                         THEN {after_path + 21 + 8} ELSE {})
         [] m.type = "Data" -> {2, after_path + 13}
         [] m.type \in {"DataEnd", "Delete", "Mkdir"} -> {2}
         [] m.type = "Symlink" -> {2, after_path + 2}
         [] m.type = "Error" -> {2, after_path + 4}
         [] m.type = "Fatal" -> {4}
         [] m.type = "Xattr" ->
               {2, after_path + 2}
               \cup (IF m.entries # <<>> THEN {after_path + 4} ELSE {})
         [] OTHER -> {}

\* A payload arrives cut short: the first n bytes of a message's payload.
Truncate ==
    /\ frame_pc = "encode"
    /\ \E n \in 0..(Len(put_payload(sent_msg)) - 1) :
          frame_payload' = SubSeq(put_payload(sent_msg), 1, n)
    /\ frame_result' = Ok(MessageType[sent_msg.type])
    /\ frame_pc' = "done"
    /\ UNCHANGED <<wire, wire_pos, frame_len, frame_type, frame_alloc, sent_msg,
                   got_msg, pathVars, chunkVars, recvVars, sendVars, genVars,
                   sessVars>>

\* A payload arrives with a length field that says more than there is.
Inflate ==
    /\ frame_pc = "encode"
    /\ \E i \in LengthFields(sent_msg) :
          frame_payload' = [put_payload(sent_msg) EXCEPT ![i] = 255]
    /\ frame_result' = Ok(MessageType[sent_msg.type])
    /\ frame_pc' = "done"
    /\ UNCHANGED <<wire, wire_pos, frame_len, frame_type, frame_alloc, sent_msg,
                   got_msg, pathVars, chunkVars, recvVars, sendVars, genVars,
                   sessVars>>

\* decode of the payload, and what it asked the allocator for on the way.
DecodeShort ==
    /\ frame_pc = "done" /\ frame_result.ok
    /\ got_msg' = decode(frame_result.value, frame_payload)
    /\ frame_alloc' = IF frame_result.value = MessageType.DestFileEntry
                      THEN with_capacity(frame_payload) ELSE None
    /\ frame_pc' = "decoded"
    /\ UNCHANGED <<wire, wire_pos, frame_len, frame_type, frame_payload,
                   frame_result, sent_msg, pathVars, chunkVars, recvVars,
                   sendVars, genVars, sessVars>>

ShortNext == Truncate \/ Inflate \/ DecodeShort

SpecShort == CodecInit /\ [][ShortNext]_vars

-----------------------------------------------------------------------------
(* scan_dest by the lengths of the frames *)

MaxDest == 3

DEST_ENTRY_BATCH_SIZE == 64 * 1024

\* config.block_size
DestBlockSize == 4096

DestNames == <<"a", "b", "c", "d", "e">>

\* An entry of the scan of the destination.
ScannedEntry(path, is_dir, size) ==
    [relative_path |-> path, is_dir |-> is_dir, size |-> size]

\* What the scan finds at a path: files of a byte, just under and of
\* DELTA_MIN_SIZE, files whose frame is just under and just over a batch,
\* and directories, one of them of the size of a delta candidate.
ScannedAt(path) ==
    { ScannedEntry(path, FALSE, n) :
        n \in { 1, DELTA_MIN_SIZE - 1, DELTA_MIN_SIZE, 3274 * DestBlockSize,
                3275 * DestBlockSize } }
    \cup { ScannedEntry(path, TRUE, n) : n \in { DestBlockSize, DELTA_MIN_SIZE } }

\* The scans: the root, which the Scanner may report, then up to MaxDest
\* entries.
DestScans ==
    { r \o es :
        r \in { <<>>, <<ScannedEntry(<<>>, TRUE, DestBlockSize)>> },
        es \in UNION { { f \in [1..n -> UNION { ScannedAt(<<DestNames[k]>>) : k \in 1..n }] :
                           \A k \in 1..n : f[k].relative_path = <<DestNames[k]>> } :
                       n \in 0..MaxDest } }

\* The number of checksums compute_checksums returns: one per block, the
\* last block short.
checksum_count(size, block_size) == (size + block_size - 1) \div block_size

\* The frame of the DestFileEntry of an entry, with the length of its bytes:
\* the header of a frame, and the payload of DestFileEntry::encode.
batch_frame(entry) ==
    LET cs == ~entry.is_dir /\ entry.size >= DELTA_MIN_SIZE
    IN [type |-> "DestFileEntry", path |-> entry.relative_path, size |-> entry.size,
        flags |-> (IF entry.is_dir THEN {"DIR"} ELSE {})
                  \cup (IF cs THEN {"HAS_CHECKSUMS"} ELSE {}),
        block_size |-> IF cs THEN DestBlockSize ELSE 0,
        len |-> 4 + 1 + 2 + Len(entry.relative_path) + 8 + 8 + 4 + 1
                + (IF cs
                   THEN 4 + 4 + checksum_count(entry.size, DestBlockSize)
                                * BlockChecksumSize
                   ELSE 0)]

end_frame(counted) ==
    [type |-> "DestFileEnd", total_files |-> counted.files,
     total_bytes |-> counted.bytes, len |-> 4 + 1 + 16]

\* batch.len()
BatchLen(frames) == Sum([k \in DOMAIN frames |-> frames[k].len])

ScanInit ==
    /\ PathIdle /\ RecvIdle /\ SendIdle /\ GenIdle /\ FrameIdle /\ SessIdle
    /\ delta_ops = <<>> /\ op_idx = 0 /\ delta_bytes_len = 0 /\ data_lens = <<>>
    /\ data_hdrs = <<>> /\ full_len = 0 /\ full_offset = 0 /\ full_reads = 0
    /\ dest_entries \in DestScans
    /\ dest_pos = 0
    /\ batch = <<>>
    /\ on_entry = <<>>
    /\ dest_totals = [files |-> 0, bytes |-> 0]
    /\ chunk_pc = "scan"

\* One turn of the loop over the entries: the root is skipped; the frame of
\* any other entry is added to the batch, the batch is handed to the
\* callback if it has reached DEST_ENTRY_BATCH_SIZE, and the entry is
\* counted.
ScanDestEntry ==
    /\ chunk_pc = "scan" /\ dest_pos < Len(dest_entries)
    /\ LET entry == dest_entries[dest_pos + 1]
           filled == Append(batch, batch_frame(entry))
       IN IF entry.relative_path = <<>>
          THEN UNCHANGED <<batch, on_entry, dest_totals>>
          ELSE /\ IF BatchLen(filled) >= DEST_ENTRY_BATCH_SIZE
                  THEN on_entry' = Append(on_entry, filled) /\ batch' = <<>>
                  ELSE on_entry' = on_entry /\ batch' = filled
               /\ dest_totals' = [files |-> dest_totals.files + 1,
                                  bytes |-> dest_totals.bytes + entry.size]
    /\ dest_pos' = dest_pos + 1
    /\ UNCHANGED <<dest_entries, delta_ops, op_idx, delta_bytes_len, data_lens,
                   data_hdrs, fullVars, chunk_pc, pathVars, recvVars, sendVars,
                   genVars, frameVars, sessVars>>

\* A scan_dest that puts the DestFileEnd into the batch of the last entries.
ScanDestEnd_Batched ==
    /\ chunk_pc = "scan" /\ dest_pos = Len(dest_entries)
    /\ on_entry' = Append(on_entry, Append(batch, end_frame(dest_totals)))
    /\ batch' = <<>>
    /\ chunk_pc' = "scanned"
    /\ UNCHANGED <<dest_entries, dest_pos, dest_totals, delta_ops, op_idx,
                   delta_bytes_len, data_lens, data_hdrs, fullVars, pathVars,
                   recvVars, sendVars, genVars, frameVars, sessVars>>

\* After the loop: what is left in the batch is handed to the callback, then
\* the DestFileEnd by itself, and scan_dest returns Ok.
ScanDestEnd ==
    /\ chunk_pc = "scan" /\ dest_pos = Len(dest_entries)
    /\ on_entry' = on_entry \o (IF batch # <<>> THEN <<batch>> ELSE <<>>)
                            \o << <<end_frame(dest_totals)>> >>
    /\ batch' = <<>>
    /\ chunk_pc' = "scanned"
    /\ UNCHANGED <<dest_entries, dest_pos, dest_totals, delta_ops, op_idx,
                   delta_bytes_len, data_lens, data_hdrs, fullVars, pathVars,
                   recvVars, sendVars, genVars, frameVars, sessVars>>

\* compute_checksums of the next entry fails, or the callback does:
\* scan_dest returns the error.
ScanDestFails ==
    /\ chunk_pc = "scan"
    /\ chunk_pc' = "scan_err"
    /\ UNCHANGED <<scanVars, delta_ops, op_idx, delta_bytes_len, data_lens,
                   data_hdrs, fullVars, pathVars, recvVars, sendVars, genVars,
                   frameVars, sessVars>>

ScanNext == ScanDestEntry \/ ScanDestEnd \/ ScanDestFails

SpecScan == ScanInit /\ [][ScanNext]_vars

-----------------------------------------------------------------------------
(* validate_path on every short path *)

PathChars == {"a", "b", ".", "/"}

\* The inputs the specification names.
NamedRejected ==
    { <<>>,
      <<"/", "a", "b", "s">>,
      <<"a", "/", ".", ".", "/", ".", ".", "/", "b">>,
      <<".", ".">>,
      <<"a", "/", ".", ".", "/", "b">> }

NamedAccepted ==
    { <<"a">>, <<"a", "/", "b">>, <<"a", "/", ".", "/", "b">> }

RelInputs == StrUpTo(MaxPathLen, PathChars) \cup NamedRejected \cup NamedAccepted

RootInputs ==
    { <<"/", "r">>, <<"r">>, <<"/">>, <<"r", "/">>, <<".">>,
      <<".", ".", "/", "r">>, <<"/", "r", "/", ".", ".", "/", "s">> }

PathInit ==
    /\ vpRoot \in RootInputs
    /\ vpRel \in RelInputs
    /\ vpResult = NoResult
    /\ ChunkIdle /\ RecvIdle /\ SendIdle /\ GenIdle /\ FrameIdle /\ SessIdle

CallValidatePath ==
    /\ vpResult = NoResult
    /\ vpResult' = validate_path(vpRoot, vpRel)
    /\ UNCHANGED <<vpRoot, vpRel, chunkVars, recvVars, sendVars, genVars, frameVars,
                   sessVars>>

PathNext == CallValidatePath

SpecPath == PathInit /\ [][PathNext]_vars

-----------------------------------------------------------------------------
(* The session: run_server at one end of two pipes, push or pull at the     *)
(* other.  A frame in a pipe is the message it encodes; a frame whose       *)
(* payload does not decode carries the field undecodable.                   *)

PROTOCOL_VERSION == 2

PROTOCOL_VERSION_MIN == 2

PROTOCOL_VERSION_MAX == 2

negotiate_version(client_version) ==
    IF client_version < PROTOCOL_VERSION_MIN
    THEN [result |-> "TooOld", client |-> client_version,
          min_supported |-> PROTOCOL_VERSION_MIN]
    ELSE IF client_version > PROTOCOL_VERSION_MAX
    THEN [result |-> "TooNew", client |-> client_version,
          max_supported |-> PROTOCOL_VERSION_MAX]
    ELSE [result |-> "Supported", version |-> client_version]

Hello_new(flags, root_path) ==
    [type |-> "Hello", version |-> PROTOCOL_VERSION, flags |-> flags,
     root_path |-> root_path]

FatalMsg(code, message) == [type |-> "Fatal", code |-> code, message |-> message]

DoneMsg(files_ok, files_err, bytes) ==
    [type |-> "Done", files_ok |-> files_ok, files_err |-> files_err,
     bytes |-> bytes, duration_ms |-> 0]

DestFileEndMsg(total_files, total_bytes) ==
    [type |-> "DestFileEnd", total_files |-> total_files,
     total_bytes |-> total_bytes]

Garbled(type) == [type |-> type, undecodable |-> TRUE]

Decodable(frame) == "undecodable" \notin DOMAIN frame

Peer(s) == IF s = "client" THEN "server" ELSE "client"

\* The side that has the source tree, and the side that has the destination.
Source(s) == sess_mode[s] = (IF s = "client" THEN "push" ELSE "pull")

Dest(s) == sess_mode[s] = (IF s = "client" THEN "pull" ELSE "push")

\* A process that has returned; its ends of the pipes are closed.
Returned(s) == pc[s] \in {"done", "err"}

\* read_frame returns: a frame is there, or the writer is gone and the
\* read fails at the end of the stream.
CanRead(s) == pipe[Peer(s)] # <<>> \/ Returned(Peer(s)) \/ pc[Peer(s)] = "script"

read_frame(s) ==
    IF pipe[Peer(s)] # <<>> THEN Ok(Head(pipe[Peer(s)]))
    ELSE Err("Failed to read frame length")

\* One step of the main task of s: it has read a frame or not, it writes
\* the frames of out and goes to `to`.  The write waits for room in the
\* pipe; it fails, and the task returns the error, when the reader is gone.
Move(s, read, out, to, res) ==
    LET broken == out # <<>> /\ Returned(Peer(s))
    IN /\ out = <<>> \/ broken \/ Len(pipe[s]) + Len(out) <= PipeCap
       /\ pipe' = [pipe EXCEPT
                     ![Peer(s)] = IF read /\ @ # <<>> THEN Tail(@) ELSE @,
                     ![s] = IF broken THEN @ ELSE @ \o out]
       /\ got' = [got EXCEPT
                    ![s] = IF read /\ pipe[Peer(s)] # <<>>
                           THEN Append(@, Head(pipe[Peer(s)])) ELSE @]
       /\ wrote' = [wrote EXCEPT ![s] = IF broken THEN @ ELSE @ \o out]
       /\ pc' = [pc EXCEPT ![s] = IF broken THEN "err" ELSE to]
       /\ result' = [result EXCEPT
                       ![s] = IF broken THEN Err("Failed to write frame") ELSE res]

Running == [ok |-> FALSE, error |-> "running"]

\* push and pull: Hello is written.
ClientHello ==
    /\ pc["client"] = "hello"
    /\ Move("client", FALSE,
            <<Hello_new(IF sess_mode["client"] = "push" THEN {}
                        ELSE {"PULL"}
                             \cup (IF gen_delete_enabled THEN {"DELETE"} ELSE {})
                             \cup (IF sender_compress THEN {"COMPRESSION"} ELSE {}),
                        RecvRoot)>>,
            "hello_resp", Running)
    /\ UNCHANGED <<sess_mode, scan_q, scan_task, pathVars, chunkVars, recvVars, sendVars,
                   genVars, frameVars>>

\* push and pull: the response is read; pull spawns the scan of its root.
ClientHelloResp ==
    /\ pc["client"] = "hello_resp" /\ CanRead("client")
    /\ LET frame == read_frame("client")
       IN IF ~frame.ok
          THEN Move("client", TRUE, <<>>, "err", frame) /\ UNCHANGED scan_task
          ELSE IF frame.value.type # "Hello"
          THEN /\ Move("client", TRUE, <<>>, "err", Err("Expected Hello response"))
               /\ UNCHANGED scan_task
          ELSE IF ~Decodable(frame.value)
          THEN /\ Move("client", TRUE, <<>>, "err", Err("Hello payload too short"))
               /\ UNCHANGED scan_task
          ELSE IF sess_mode["client"] = "push"
          THEN Move("client", TRUE, <<>>, "exchange", Running) /\ UNCHANGED scan_task
          ELSE Move("client", TRUE, <<>>, "scan", Running) /\ scan_task' = "running"
    /\ UNCHANGED <<sess_mode, scan_q, pathVars, chunkVars, recvVars, sendVars, genVars,
                   frameVars>>

\* A server that takes the destination role whatever the flags of the Hello.
ServerHello_AlwaysPush ==
    /\ pc["server"] = "hello" /\ CanRead("server")
    /\ LET frame == read_frame("server")
       IN IF ~frame.ok
          THEN /\ Move("server", TRUE, <<>>, "err", frame)
               /\ UNCHANGED <<sess_mode, scan_task, gen_delete_enabled, sender_compress>>
          ELSE IF frame.value.type # "Hello"
          THEN /\ Move("server", TRUE, <<FatalMsg(1, "Expected HELLO")>>, "done", Ok(<<>>))
               /\ UNCHANGED <<sess_mode, scan_task, gen_delete_enabled, sender_compress>>
          ELSE IF ~Decodable(frame.value)
          THEN /\ Move("server", TRUE, <<>>, "err", Err("Hello payload too short"))
               /\ UNCHANGED <<sess_mode, scan_task, gen_delete_enabled, sender_compress>>
          ELSE /\ Move("server", TRUE, <<Hello_new({}, <<>>)>>, "scan", Running)
               /\ sess_mode' = [sess_mode EXCEPT !["server"] = "push"]
               /\ scan_task' = "running"
               /\ UNCHANGED <<gen_delete_enabled, sender_compress>>
    /\ UNCHANGED <<scan_q, pathVars, chunkVars, recvVars, src_files, rx, consumed, sent,
                   sender_result, delivered, dest_index, dest_all, dest_in, scan,
                   scan_done, seen_inodes, tx, totals, gen_pc, deletes_left,
                   frameVars>>

\* run_server up to run_server_pull or run_server_push.
ServerHello ==
    /\ pc["server"] = "hello" /\ CanRead("server")
    /\ LET frame == read_frame("server")
       IN IF ~frame.ok
          THEN /\ Move("server", TRUE, <<>>, "err", frame)
               /\ UNCHANGED <<sess_mode, scan_task, gen_delete_enabled, sender_compress>>
          ELSE IF frame.value.type # "Hello"
          THEN /\ Move("server", TRUE, <<FatalMsg(1, "Expected HELLO")>>, "done", Ok(<<>>))
               /\ UNCHANGED <<sess_mode, scan_task, gen_delete_enabled, sender_compress>>
          ELSE IF ~Decodable(frame.value)
          THEN /\ Move("server", TRUE, <<>>, "err", Err("Hello payload too short"))
               /\ UNCHANGED <<sess_mode, scan_task, gen_delete_enabled, sender_compress>>
          ELSE IF "PULL" \in frame.value.flags
          THEN /\ Move("server", TRUE, <<Hello_new({}, <<>>)>>, "exchange", Running)
               /\ sess_mode' = [sess_mode EXCEPT !["server"] = "pull"]
               /\ gen_delete_enabled' = ("DELETE" \in frame.value.flags)
               /\ sender_compress' = ("COMPRESSION" \in frame.value.flags)
               /\ UNCHANGED scan_task
          ELSE /\ Move("server", TRUE, <<Hello_new({}, <<>>)>>, "scan", Running)
               /\ sess_mode' = [sess_mode EXCEPT !["server"] = "push"]
               /\ scan_task' = "running"
               /\ UNCHANGED <<gen_delete_enabled, sender_compress>>
    /\ UNCHANGED <<scan_q, pathVars, chunkVars, recvVars, src_files, rx, consumed, sent,
                   sender_result, delivered, dest_index, dest_all, dest_in, scan,
                   scan_done, seen_inodes, tx, totals, gen_pc, deletes_left,
                   frameVars>>

scan_dest_EndFirst(entries) ==
    << <<DestFileEndMsg(Len(entries), Sum([i \in DOMAIN entries |-> entries[i].size]))>> >>
    \o (IF entries # <<>> THEN <<entries>> ELSE <<>>)

\* scan_dest: what it sends for the entries of the scan, the root skipped:
\* the DestFileEntry frames in one batch, then DestFileEnd by itself.
scan_dest(entries) ==
    (IF entries # <<>> THEN <<entries>> ELSE <<>>)
    \o << <<DestFileEndMsg(Len(entries), Sum([i \in DOMAIN entries |-> entries[i].size]))>> >>

\* scan_dest, spawned: each chunk is sent on the unbounded channel.
ScanDest ==
    /\ scan_task = "running"
    /\ scan_q' = scan_q \o scan_dest(dest_in)
    /\ scan_task' = "ok"
    /\ UNCHANGED <<sess_mode, pc, pipe, wrote, got, result, pathVars, chunkVars, recvVars,
                   sendVars, genVars, frameVars>>

\* The loop over data_rx of the destination side: the next bytes of the
\* chunk received are written.
DrainScan(s) ==
    /\ Dest(s) /\ pc[s] = "scan" /\ scan_q # <<>>
    /\ Move(s, FALSE, <<Head(Head(scan_q))>>, "scan", Running)
    /\ scan_q' = IF Len(Head(scan_q)) > 1
                 THEN <<Tail(Head(scan_q))>> \o Tail(scan_q)
                 ELSE Tail(scan_q)
    /\ UNCHANGED <<sess_mode, scan_task, pathVars, chunkVars, recvVars, sendVars, genVars,
                   frameVars>>

\* The channel is closed and empty: the scan is awaited.
ScanDrained(s) ==
    /\ Dest(s) /\ pc[s] = "scan" /\ scan_q = <<>> /\ scan_task = "ok"
    /\ Move(s, FALSE, <<>>, "recv", Running)
    /\ UNCHANGED <<sess_mode, scan_q, scan_task, pathVars, chunkVars, recvVars, sendVars,
                   genVars, frameVars>>

\* The Receiver goes out of scope as the destination side returns.
ReceiverLeft ==
    /\ Applied(Good(DropAll(Now)), [type |-> "drop"])
    /\ dropped' = TRUE
    /\ UNCHANGED <<config_root, handled>>

\* What pull returns on Done: the Receiver's stats with the counts of Done.
PullStats(done) ==
    [stats EXCEPT !.files_ok = done.files_ok, !.files_err = done.files_err,
                  !.bytes_transferred = done.bytes]

\* handle_message returned out for the frame msg: an error ends the loop,
\* and the side returns it.
DestHandled(s, msg, out) ==
    IF out.ok
    THEN /\ Move(s, TRUE, <<>>, "recv", Running)
         /\ Applied(out, msg)
         /\ handled' = handled + 1
         /\ UNCHANGED <<config_root, dropped>>
    ELSE /\ Move(s, TRUE, <<>>, "err", Err("handle_message"))
         /\ Applied([r |-> DropAll(out.r), ok |-> FALSE], msg)
         /\ handled' = handled + 1
         /\ dropped' = TRUE
         /\ UNCHANGED config_root

\* What the loop does with the outcome of read_frame.
DestFrame(s, frame) ==
    IF ~frame.ok
    THEN Move(s, TRUE, <<>>, "err", frame) /\ ReceiverLeft
    ELSE IF frame.value.type = "Done"
    THEN IF s = "server"
         THEN /\ Move(s, TRUE, <<DoneMsg(stats.files_ok, stats.files_err,
                                         stats.bytes_transferred)>>,
                      "done", Ok(<<>>))
              /\ ReceiverLeft
         ELSE IF ~Decodable(frame.value)
         THEN /\ Move(s, TRUE, <<>>, "err", Err("Done payload too short"))
              /\ ReceiverLeft
         ELSE /\ Move(s, TRUE, <<>>, "done", Ok(PullStats(frame.value)))
              /\ ReceiverLeft
    ELSE IF ~Decodable(frame.value)
    THEN Move(s, TRUE, <<>>, "err", Err("payload too short")) /\ ReceiverLeft
    ELSE DestHandled(s, frame.value, handle_message(Now, frame.value, "none"))

\* One turn of the loop of run_server_push, or of pull: a frame is read;
\* Done ends the loop, any other frame goes to handle_message.
DestRecv(s) ==
    /\ Dest(s) /\ pc[s] = "recv" /\ CanRead(s)
    /\ DestFrame(s, read_frame(s))
    /\ UNCHANGED <<sess_mode, scan_q, scan_task, pathVars, chunkVars, sendVars, genVars,
                   frameVars>>

\* One turn of the loop of the Initial Exchange on the source side; on
\* DestFileEnd the Generator and the Sender are spawned.
SrcExchange(s) ==
    /\ Source(s) /\ pc[s] = "exchange" /\ CanRead(s)
    /\ LET frame == read_frame(s)
       IN IF ~frame.ok
          THEN /\ Move(s, TRUE, <<>>, "err", frame)
               /\ UNCHANGED <<dest_index, dest_all, gen_pc, sender_result>>
          ELSE IF frame.value.type = "DestFileEntry"
          THEN IF ~Decodable(frame.value)
               THEN /\ Move(s, TRUE, <<>>, "err", Err("DestFileEntry payload too short"))
                    /\ UNCHANGED <<dest_index, dest_all, gen_pc, sender_result>>
               ELSE /\ Move(s, TRUE, <<>>, "exchange", Running)
                    /\ dest_index' = Put(dest_index, frame.value.path,
                                         DestFileState(frame.value))
                    /\ dest_all' = Put(dest_all, frame.value.path,
                                       DestFileState(frame.value))
                    /\ UNCHANGED <<gen_pc, sender_result>>
          ELSE IF frame.value.type = "DestFileEnd"
          THEN /\ Move(s, TRUE, <<>>, "run", Running)
               /\ gen_pc' = "scan"
               /\ sender_result' = "running"
               /\ UNCHANGED <<dest_index, dest_all>>
          ELSE IF frame.value.type = "Fatal" /\ s = "client"
          THEN /\ Move(s, TRUE, <<>>, "err",
                       IF Decodable(frame.value) THEN Err("Remote fatal error")
                       ELSE Err("Fatal payload too short"))
               /\ UNCHANGED <<dest_index, dest_all, gen_pc, sender_result>>
          ELSE /\ Move(s, TRUE, <<>>, "err",
                       Err("Unexpected message during Initial Exchange"))
               /\ UNCHANGED <<dest_index, dest_all, gen_pc, sender_result>>
    /\ UNCHANGED <<sess_mode, scan_q, scan_task, pathVars, chunkVars, recvVars,
                   sender_compress, src_files, rx, consumed, sent, delivered,
                   gen_delete_enabled, dest_in, scan, scan_done, seen_inodes, tx,
                   totals, deletes_left, frameVars>>

\* A Generator that does not wait for room: what it sends while the channel
\* is full is lost.
GeneratorTask_NoWait ==
    /\ \/ GenEntryStep \/ GenFileEndStep \/ GenDeleteStep \/ GenDeleteEndStep
    /\ rx' = IF Len(rx) < JobChannelCap
             THEN rx \o SubSeq(tx', Len(tx) + 1, Len(tx')) ELSE rx
    /\ UNCHANGED <<sender_compress, src_files, consumed, sent, sender_result,
                   delivered, pathVars, chunkVars, recvVars, frameVars, sessVars>>

\* The Generator, spawned: one turn of run.  What it sends goes into the
\* bounded channel to the Sender, and the send waits for room.
GeneratorTask ==
    /\ \/ GenEntryStep \/ GenFileEndStep \/ GenDeleteStep \/ GenDeleteEndStep
    /\ tx' = tx \/ Len(rx) < JobChannelCap
    /\ rx' = rx \o SubSeq(tx', Len(tx) + 1, Len(tx'))
    /\ UNCHANGED <<sender_compress, src_files, consumed, sent, sender_result,
                   delivered, pathVars, chunkVars, recvVars, frameVars, sessVars>>

\* The Sender, spawned: one turn of run on a File work item, its file read
\* whole without an error.
SenderTaskFile ==
    /\ sender_result = "running" /\ rx # <<>> /\ Head(rx).type = "File"
    /\ LET n == FileLen(src_files, Head(rx).path)
           out == process_file(src_files, Head(rx), sender_compress,
                               IF n = 0 THEN <<>> ELSE <<n>>, 0)
       IN /\ sent' = sent \o out.msgs
          /\ sender_result' = IF out.ok THEN "running" ELSE "err"
    /\ consumed' = Append(consumed, Head(rx))
    /\ rx' = Tail(rx)
    /\ UNCHANGED <<sender_compress, src_files, delivered, pathVars, chunkVars, recvVars,
                   genVars, frameVars, sessVars>>

\* One turn on any other work item, and the return of run once the
\* Generator has dropped its end of the channel.
SenderTask ==
    /\ \/ SenderPassStep
       \/ SenderDoneStep /\ gen_pc \in {"done", "err"}
    /\ UNCHANGED <<pathVars, chunkVars, recvVars, genVars, frameVars, sessVars>>

\* The loop over data_rx of the source side: the bytes received are written.
Drain(s) ==
    /\ Source(s) /\ pc[s] = "run" /\ delivered < Len(sent)
    /\ Move(s, FALSE, <<sent[delivered + 1]>>, "run", Running)
    /\ delivered' = delivered + 1
    /\ UNCHANGED <<sess_mode, scan_q, scan_task, sender_compress, src_files, rx,
                   consumed, sent, sender_result, pathVars, chunkVars, recvVars, genVars,
                   frameVars>>

TaskError == gen_pc = "err" \/ sender_result = "err"

DrainEnd_NoSentinel(s) ==
    /\ Source(s) /\ pc[s] = "run" /\ delivered = Len(sent)
    /\ sender_result \in {"ok", "err"}
    /\ IF s = "client" THEN Move(s, FALSE, <<>>, "final", Running)
       ELSE Move(s, FALSE, <<DoneMsg(totals.files, 0, totals.bytes)>>, "done",
                 Ok(<<>>))
    /\ UNCHANGED <<sess_mode, scan_q, scan_task, pathVars, chunkVars, recvVars, sendVars,
                   genVars, frameVars>>

\* A loop over data_rx that ends when the channel is empty, closed or not.
DrainEnd_Early(s) ==
    /\ Source(s) /\ pc[s] = "run" /\ delivered = Len(sent)
    /\ IF s = "client"
       THEN Move(s, FALSE, <<DoneMsg(0, 0, 0)>>,
                 IF TaskError THEN "err" ELSE "final",
                 IF TaskError THEN Err("task") ELSE Running)
       ELSE IF TaskError THEN Move(s, FALSE, <<>>, "err", Err("task"))
       ELSE Move(s, FALSE, <<DoneMsg(totals.files, 0, totals.bytes)>>, "done",
                 Ok(<<>>))
    /\ UNCHANGED <<sess_mode, scan_q, scan_task, pathVars, chunkVars, recvVars, sendVars,
                   genVars, frameVars>>

\* The channel is closed and empty.  push writes its Done and awaits the
\* tasks; run_server_pull awaits the tasks and writes Done with the totals
\* of the Generator.
DrainEnd(s) ==
    /\ Source(s) /\ pc[s] = "run" /\ delivered = Len(sent)
    /\ sender_result \in {"ok", "err"}
    /\ IF s = "client"
       THEN Move(s, FALSE, <<DoneMsg(0, 0, 0)>>,
                 IF TaskError THEN "err" ELSE "final",
                 IF TaskError THEN Err("task") ELSE Running)
       ELSE IF TaskError THEN Move(s, FALSE, <<>>, "err", Err("task"))
       ELSE Move(s, FALSE, <<DoneMsg(totals.files, 0, totals.bytes)>>, "done",
                 Ok(<<>>))
    /\ UNCHANGED <<sess_mode, scan_q, scan_task, pathVars, chunkVars, recvVars, sendVars,
                   genVars, frameVars>>

PushStats(files_ok, files_err, bytes) ==
    [NoStats EXCEPT !.files_ok = files_ok, !.files_err = files_err,
                    !.bytes_transferred = bytes]

\* push: the last frame is read.
ClientFinal ==
    /\ pc["client"] = "final" /\ CanRead("client")
    /\ LET frame == read_frame("client")
       IN IF ~frame.ok THEN Move("client", TRUE, <<>>, "err", frame)
          ELSE IF frame.value.type = "Done"
          THEN IF ~Decodable(frame.value)
               THEN Move("client", TRUE, <<>>, "err", Err("Done payload too short"))
               ELSE Move("client", TRUE, <<>>, "done",
                         Ok(PushStats(frame.value.files_ok, frame.value.files_err,
                                      frame.value.bytes)))
          ELSE Move("client", TRUE, <<>>, "done",
                    Ok(PushStats(totals.files, 0, totals.bytes)))
    /\ UNCHANGED <<sess_mode, scan_q, scan_task, pathVars, chunkVars, recvVars, sendVars,
                   genVars, frameVars>>

\* A scripted peer reads what is written to it.
PeerReads(s) ==
    /\ pc[s] = "script" /\ pipe[Peer(s)] # <<>>
    /\ Move(s, TRUE, <<>>, "script", NoResult)
    /\ UNCHANGED <<sess_mode, scan_q, scan_task, pathVars, chunkVars, recvVars, sendVars,
                   genVars, frameVars>>

-----------------------------------------------------------------------------
(* Sessions: the source has a.x of two bytes, the empty file b, a          *)
(* directory and a symlink; the destination has a.x of two bytes or is     *)
(* empty.                                                                   *)

SessScans ==
    { <<>>,
      <<ScanEntry(<<>>, "dir", 1, 0), ScanEntry(PathA, "file", 2, 0)>>,
      <<ScanEntry(PathA, "file", 2, 1), ScanEntry(PathB, "file", 0, 0)>>,
      <<ScanEntry(<<"d">>, "dir", 1, 0), ScanEntry(<<"l">>, "symlink", 1, 0)>>,
      <<ScanEntry(PathB, "file", 0, 0)>> }

\* What the scan of the destination finds in a tree, the root skipped.
SessDest(tree) ==
    IF Append(RootKey, PathA) \in DOMAIN tree.fs
    THEN <<DestEntry(PathA, 2, 0, {}, 0, <<>>)>>
    ELSE <<>>

SessCommon ==
    /\ PathIdle /\ ChunkIdle /\ FrameIdle
    /\ config_root = RecvRoot
    /\ \E t \in InitialTrees :
          fs = t.fs /\ inodes = t.inodes /\ dest_in = SessDest(t)
    /\ pending_files = <<>>
    /\ stats = NoStats
    /\ dropped = FALSE
    /\ handled = 0
    /\ lastMsg = NoMsg
    /\ lastResult = TRUE
    /\ lastOps = <<>>
    /\ before = <<>>
    /\ held = <<>>
    /\ seen = {}
    /\ tally = NoTally
    /\ sender_compress = FALSE
    /\ src_files = SendFiles
    /\ rx = <<>>
    /\ consumed = <<>>
    /\ sent = <<>>
    /\ sender_result = "idle"
    /\ delivered = 0
    /\ dest_index = <<>>
    /\ dest_all = <<>>
    /\ scan \in SessScans
    /\ scan_done = <<>>
    /\ seen_inodes = <<>>
    /\ tx = <<>>
    /\ totals = [files |-> 0, bytes |-> 0]
    /\ gen_pc = "exchange"
    /\ deletes_left = {}
    /\ wrote = [s \in Sides |-> <<>>]
    /\ got = [s \in Sides |-> <<>>]
    /\ scan_q = <<>>
    /\ scan_task = "off"
    /\ result = [s \in Sides |-> NoResult]

\* The client and the server of this repository, one against the other.
SessInit ==
    /\ SessCommon
    /\ gen_delete_enabled \in BOOLEAN
    /\ \E m \in {"push", "pull"} : sess_mode = [client |-> m, server |-> "none"]
    /\ pc = [s \in Sides |-> "hello"]
    /\ pipe = [s \in Sides |-> <<>>]

SessNext ==
    \/ ClientHello \/ ClientHelloResp \/ ServerHello \/ ScanDest
    \/ GeneratorTask \/ SenderTaskFile \/ SenderTask \/ ClientFinal
    \/ \E s \in Sides :
          \/ DrainScan(s) \/ ScanDrained(s) \/ DestRecv(s)
          \/ SrcExchange(s) \/ Drain(s) \/ DrainEnd(s)

SpecSession == SessInit /\ [][SessNext]_vars

\* The state in which a turn of the destination's loop can be taken: a frame
\* or the end of the stream is there to read, and the Done that answers a
\* Done can be written.
DestReady(s) ==
    /\ Dest(s) /\ pc[s] = "recv" /\ CanRead(s)
    /\ \/ s # "server" \/ Returned(Peer(s)) \/ Len(pipe[s]) < PipeCap
       \/ ~read_frame(s).ok \/ read_frame(s).value.type # "Done"

\* The steps of the session other than the turns of the destination's loop.
LightNext ==
    \/ ClientHello \/ ClientHelloResp \/ ServerHello \/ ScanDest
    \/ GeneratorTask \/ SenderTaskFile \/ SenderTask \/ ClientFinal
    \/ \E s \in Sides :
          \/ DrainScan(s) \/ ScanDrained(s)
          \/ SrcExchange(s) \/ Drain(s) \/ DrainEnd(s)

\* The runtime schedules every spawned task and both processes run: while
\* some task can take a step, a step is taken.  For the destination's loop
\* the weak fairness of DestRecv is written out, with DestReady for its
\* enabling condition.
SessFair ==
    /\ WF_vars(LightNext)
    /\ \A s \in Sides :
          []<>(~DestReady(s)) \/ []<><<DestRecv(s)>>_vars

SpecSessionFair == SessInit /\ [][SessNext]_vars /\ SessFair

-----------------------------------------------------------------------------
(* run_server against any peer: what the peer writes is a script, and the   *)
(* stream ends after it.                                                    *)

HelloOf(version, flags) ==
    [type |-> "Hello", version |-> version, flags |-> flags, root_path |-> RecvRoot]

PathOut == <<".", ".", "/", "e">>

\* What follows a Hello without PULL.
PushScripts ==
    { <<>>, <<DoneMsg(0, 0, 0)>>,
      <<[type |-> "FileEntry", path |-> PathA],
        [type |-> "Data", path |-> PathA, offset |-> 0, flags |-> {}, data |-> <<7>>],
        [type |-> "DataEnd", path |-> PathA, status |-> STATUS_OK],
        DoneMsg(0, 0, 0)>>,
      <<[type |-> "FileEntry", path |-> PathA],
        [type |-> "DataEnd", path |-> PathA, status |-> STATUS_ERROR],
        DoneMsg(0, 0, 0)>>,
      <<[type |-> "FileEntry", path |-> PathA],
        [type |-> "Data", path |-> PathA, offset |-> 0, flags |-> {}, data |-> <<7>>],
        [type |-> "DataEnd", path |-> PathA, status |-> STATUS_OK],
        [type |-> "FileEntry", path |-> PathB],
        [type |-> "Data", path |-> PathB, offset |-> 0, flags |-> {}, data |-> <<8, 9>>],
        [type |-> "DataEnd", path |-> PathB, status |-> STATUS_OK],
        DoneMsg(0, 0, 0)>>,
      <<[type |-> "FileEntry", path |-> PathA],
        [type |-> "Data", path |-> PathA, offset |-> 0, flags |-> {}, data |-> <<7>>],
        [type |-> "FileEntry", path |-> PathA],
        [type |-> "Data", path |-> PathA, offset |-> 0, flags |-> {}, data |-> <<8, 9>>],
        [type |-> "DataEnd", path |-> PathA, status |-> STATUS_OK],
        DoneMsg(0, 0, 0)>>,
      <<[type |-> "FileEntry", path |-> PathA],
        [type |-> "Data", path |-> PathA, offset |-> 0, flags |-> {}, data |-> <<7>>],
        [type |-> "DataEnd", path |-> PathA, status |-> STATUS_ERROR],
        [type |-> "FileEntry", path |-> PathB],
        [type |-> "DataEnd", path |-> PathB, status |-> STATUS_OK],
        [type |-> "DataEnd", path |-> PathB, status |-> STATUS_OK],
        DoneMsg(0, 0, 0)>>,
      <<[type |-> "FileEntry", path |-> PathOut]>>,
      <<[type |-> "Data", path |-> PathA, offset |-> 0, flags |-> {}, data |-> <<7>>]>>,
      <<Garbled("Mkdir")>> }

\* What follows a Hello with PULL.
PullScripts ==
    { <<>>, <<DestFileEndMsg(0, 0)>>,
      <<DestEntry(PathA, 2, 0, {}, 0, <<>>), DestFileEndMsg(1, 2)>>,
      <<DestEntry(<<"z">>, 1, 0, {}, 0, <<>>), DestFileEndMsg(1, 1)>>,
      <<Garbled("DestFileEntry")>>,
      <<[type |-> "FileEntry", path |-> PathA]>> }

ServerScripts ==
    { <<>>, <<DoneMsg(0, 0, 0)>>, <<Garbled("Hello")>> }
    \cup { <<HelloOf(v, {})>> \o rest : v \in {1, 2, 3}, rest \in PushScripts }
    \cup { <<HelloOf(2, f)>> \o rest :
             f \in { {"PULL"}, {"PULL", "DELETE"} }, rest \in PullScripts }

ServerInit ==
    /\ SessCommon
    /\ gen_delete_enabled = FALSE
    /\ sess_mode = [s \in Sides |-> "none"]
    /\ pc = [client |-> "script", server |-> "hello"]
    /\ \E script \in ServerScripts : pipe = [client |-> script, server |-> <<>>]

ServerNext ==
    \/ ServerHello \/ ScanDest \/ GeneratorTask \/ SenderTaskFile \/ SenderTask
    \/ PeerReads("client")
    \/ \E s \in {"server"} :
          \/ DrainScan(s) \/ ScanDrained(s) \/ DestRecv(s)
          \/ SrcExchange(s) \/ Drain(s) \/ DrainEnd(s)

SpecServer == ServerInit /\ [][ServerNext]_vars

-----------------------------------------------------------------------------
(* push and pull against any peer *)

ClientScripts ==
    { <<>>, <<FatalMsg(1, "Expected HELLO")>>, <<Garbled("Hello")>> }
    \cup { <<Hello_new({}, <<>>)>> \o rest :
             rest \in { <<>>, <<DestFileEndMsg(0, 0)>>,
                        <<DestFileEndMsg(0, 0), DoneMsg(1, 0, 2)>>,
                        <<DestFileEndMsg(0, 0), Garbled("Done")>>,
                        <<DestFileEndMsg(0, 0), FatalMsg(2, "disk full")>>,
                        <<DestEntry(PathA, 2, 0, {}, 0, <<>>), DestFileEndMsg(1, 2),
                          DoneMsg(0, 0, 0)>>,
                        <<FatalMsg(2, "disk full")>>,
                        <<Garbled("Fatal")>>,
                        <<Garbled("DestFileEntry")>>,
                        <<DoneMsg(1, 0, 2)>>,
                        <<[type |-> "Mkdir", path |-> <<"d">>], DoneMsg(0, 0, 0)>>,
                        <<[type |-> "Mkdir", path |-> PathOut]>>,
                        <<Garbled("Done")>> } }

ClientInit ==
    /\ SessCommon
    /\ gen_delete_enabled \in BOOLEAN
    /\ \E m \in {"push", "pull"} : sess_mode = [client |-> m, server |-> "none"]
    /\ pc = [client |-> "hello", server |-> "script"]
    /\ \E script \in ClientScripts : pipe = [client |-> <<>>, server |-> script]

ClientNext ==
    \/ ClientHello \/ ClientHelloResp \/ ScanDest \/ GeneratorTask
    \/ SenderTaskFile \/ SenderTask \/ ClientFinal \/ PeerReads("server")
    \/ \E s \in {"client"} :
          \/ DrainScan(s) \/ ScanDrained(s) \/ DestRecv(s)
          \/ SrcExchange(s) \/ Drain(s) \/ DrainEnd(s)

SpecClient == ClientInit /\ [][ClientNext]_vars

-----------------------------------------------------------------------------
(* push with its tasks failing: the Sender on a file that is gone, the     *)
(* write to a transport whose other end was closed, and the sends on the   *)
(* channels whose receivers were dropped                                   *)

\* The scans of the source: c was scanned and is gone when the Sender
\* opens it.
PipeScans ==
    { <<ScanEntry(PathGone, "file", 1, 0)>>,
      <<ScanEntry(PathB, "file", 0, 0), ScanEntry(PathGone, "file", 1, 0)>>,
      <<ScanEntry(PathGone, "file", 1, 0), ScanEntry(<<"d">>, "dir", 1, 0),
        ScanEntry(PathB, "file", 0, 0)>>,
      <<ScanEntry(PathA, "file", 2, 1), ScanEntry(<<"d">>, "dir", 1, 0)>> }

\* What the server writes: its Hello, the Initial Exchange of a destination
\* that is empty or has the file e, and its Done.
PipeScripts ==
    { <<Hello_new({}, <<>>), DestFileEndMsg(0, 0), DoneMsg(1, 0, 2)>>,
      <<Hello_new({}, <<>>), DestEntry(<<"e">>, 1, 0, {}, 0, <<>>),
        DestFileEndMsg(1, 1), DoneMsg(1, 0, 2)>> }

PipeInit ==
    /\ PathIdle /\ ChunkIdle /\ FrameIdle /\ RecvIdle
    /\ sender_compress = FALSE
    /\ src_files = SendFiles
    /\ rx = <<>>
    /\ consumed = <<>>
    /\ sent = <<>>
    /\ sender_result = "idle"
    /\ delivered = 0
    /\ gen_delete_enabled \in BOOLEAN
    /\ dest_index = <<>>
    /\ dest_all = <<>>
    /\ dest_in = <<>>
    /\ scan \in PipeScans
    /\ scan_done = <<>>
    /\ seen_inodes = <<>>
    /\ tx = <<>>
    /\ totals = [files |-> 0, bytes |-> 0]
    /\ gen_pc = "exchange"
    /\ deletes_left = {}
    /\ sess_mode = [client |-> "push", server |-> "none"]
    /\ pc = [client |-> "hello", server |-> "script"]
    /\ \E script \in PipeScripts : pipe = [client |-> <<>>, server |-> script]
    /\ wrote = [s \in Sides |-> <<>>]
    /\ got = [s \in Sides |-> <<>>]
    /\ scan_q = <<>>
    /\ scan_task = "off"
    /\ result = [s \in Sides |-> NoResult]

\* The Generator, spawned: one turn of run.  A send waits for room in the
\* channel while the Sender holds the receiver.
PipeGenerator ==
    /\ \/ GenEntryStep \/ GenFileEndStep \/ GenDeleteStep \/ GenDeleteEndStep
    /\ tx' = tx \/ (sender_result = "running" /\ Len(rx) < JobChannelCap)
    /\ rx' = rx \o SubSeq(tx', Len(tx) + 1, Len(tx'))
    /\ UNCHANGED <<sender_compress, src_files, consumed, sent, sender_result,
                   delivered, pathVars, chunkVars, recvVars, frameVars, sessVars>>

\* A send on a channel whose receiver is gone that waits for ever.
PipeGenFails_Waits ==
    /\ FALSE
    /\ UNCHANGED vars

\* The Sender has returned and dropped the receiver: tx.send fails and run
\* returns the error.
PipeGenFails ==
    /\ sender_result \in {"ok", "err"}
    /\ GenSendFailsStep
    /\ UNCHANGED <<pathVars, chunkVars, recvVars, sendVars, frameVars, sessVars>>

\* The Sender, spawned: one turn of run on a File work item.  on_data fails
\* once push has returned and dropped data_rx; process_file fails on a file
\* that is gone.
PipeSenderFile ==
    /\ sender_result = "running" /\ rx # <<>> /\ Head(rx).type = "File"
    /\ LET n == FileLen(src_files, Head(rx).path)
           out == process_file(src_files, Head(rx), sender_compress,
                               IF n = 0 THEN <<>> ELSE <<n>>, 0)
       IN IF Returned("client")
          THEN sent' = sent /\ sender_result' = "err"
          ELSE /\ sent' = sent \o out.msgs
               /\ sender_result' = IF out.ok THEN "running" ELSE "err"
    /\ consumed' = Append(consumed, Head(rx))
    /\ rx' = Tail(rx)
    /\ UNCHANGED <<sender_compress, src_files, delivered, pathVars, chunkVars, recvVars,
                   genVars, frameVars, sessVars>>

\* One turn on any other work item, and the return of run once the
\* Generator has dropped its end of the channel.
PipeSender ==
    /\ \/ ~Returned("client") /\ SenderPassStep
       \/ /\ Returned("client")
          /\ sender_result = "running" /\ rx # <<>> /\ Head(rx).type # "File"
          /\ sender_result' = "err"
          /\ consumed' = Append(consumed, Head(rx))
          /\ rx' = Tail(rx)
          /\ UNCHANGED <<sender_compress, src_files, sent, delivered>>
       \/ SenderDoneStep /\ gen_pc \in {"done", "err"}
    /\ UNCHANGED <<pathVars, chunkVars, recvVars, genVars, frameVars, sessVars>>

\* The server goes away: its end of the transport is closed.
PeerCloses ==
    /\ pc["server"] = "script"
    /\ pc' = [pc EXCEPT !["server"] = "done"]
    /\ UNCHANGED <<sess_mode, pipe, wrote, got, scan_q, scan_task, result, pathVars,
                   chunkVars, recvVars, sendVars, genVars, frameVars>>

\* The tasks of push: the main task, the Generator and the Sender.
PipeTasks ==
    \/ ClientHello \/ ClientHelloResp \/ SrcExchange("client")
    \/ PipeGenerator \/ PipeGenFails \/ PipeSenderFile \/ PipeSender
    \/ Drain("client") \/ DrainEnd("client") \/ ClientFinal

PipeNext == PipeTasks \/ PeerReads("server") \/ PeerCloses

SpecPipe == PipeInit /\ [][PipeNext]_vars

\* The runtime schedules every spawned task, and the main task runs: while
\* one of them can take a step, a step is taken.  The transport passes on
\* what is written to it while the server is there.
PipeFair == WF_vars(PipeTasks) /\ WF_vars(PeerReads("server"))

SpecPipeFair == PipeInit /\ [][PipeNext]_vars /\ PipeFair

-----------------------------------------------------------------------------
(* C1 *)

\* A ".." between two separators or ends of the string, read off the
\* characters and not off Components.
HasDotDotSegment(s) ==
    \E i \in 1..(Len(s) - 1) :
        /\ s[i] = "." /\ s[i + 1] = "."
        /\ (i = 1 \/ s[i - 1] = "/")
        /\ (i + 1 = Len(s) \/ s[i + 2] = "/")

MustReject(s) == s = <<>> \/ s[1] = "/" \/ HasDotDotSegment(s)

\* C1: validate_path rejects a relative path exactly when it is empty,
\* absolute or has a ".." component; every other path is accepted and the
\* value returned is the root joined with it, whose normalized form starts
\* with the normalized root.
C1_ValidatePath ==
    vpResult # NoResult =>
        /\ MustReject(vpRel) => ~vpResult.ok
        /\ ~MustReject(vpRel) =>
            /\ vpResult.ok
            /\ vpResult.value = join(vpRoot, vpRel)
            /\ IsPrefix(normalize_path(vpRoot), normalize_path(vpResult.value))
        /\ vpRel \in NamedRejected => ~vpResult.ok
        /\ vpRel \in NamedAccepted => vpResult.ok

C1_Witness ==
    /\ vpResult # NoResult
    /\ vpRel = <<"a", "/", ".", "/", "b">>
    /\ vpRoot = <<"/", "r">>
    /\ vpResult.ok
    /\ normalize_path(vpResult.value) = <<RootDir, <<"r">>, <<"a">>, <<"b">>>>

-----------------------------------------------------------------------------
(* C2 *)

\* The calls that create, truncate, move or remove a directory entry.
ChangesEntry(op) ==
    op.ok /\ op.op \in {"mkdir", "open", "rename", "remove_file",
                        "remove_dir_all", "symlink"}

PathRejected(msg) ==
    msg.type \in {"FileEntry", "Mkdir", "Symlink", "Delete"}
    /\ ~validate_path(config_root, msg.path).ok

\* C2: every directory entry the Receiver creates, truncates, renames or
\* removes lies under the sync root, and a message whose path fails
\* validation changes nothing in the file system and makes handle_message
\* return an error.
C2_UnderRoot ==
    /\ \A i \in DOMAIN lastOps :
          ChangesEntry(lastOps[i]) =>
              /\ IsPrefix(RootKey, lastOps[i].key)
              /\ lastOps[i].op = "rename" => IsPrefix(RootKey, lastOps[i].from)
    /\ PathRejected(lastMsg) =>
          /\ ~lastResult
          /\ lastOps = <<>>
          /\ fs = before.fs /\ inodes = before.inodes

-----------------------------------------------------------------------------
(* C3 *)

FinalPath(p) == join(config_root, p)

TempPath(p) == with_extension(FinalPath(p), SyTmp)

NoTempOf(p) == Node(fs, Entry(fs, TempPath(p))).kind \notin {"file", "link"}

TransfersOnly == seen \subseteq {"FileEntry", "Data", "DataEnd", "drop"}

-----------------------------------------------------------------------------
(* C4 *)

IsTransferMsg(msg) == msg.type \in {"FileEntry", "Data", "DataEnd"}

IsDataEndOk(msg) == msg.type = "DataEnd" /\ msg.status = STATUS_OK

\* C4: a rename is called only by the handler of a DataEnd(OK) for a pending
\* path, from its temp path onto its final path, after the sync_all of its
\* temp file succeeded; the guard is defused only after the rename
\* succeeded; and the handlers of FileEntry, Data and DataEnd(error) leave
\* what the final path of their message holds as it was.
C4_RenameOnlyAtDataEndOk ==
    /\ \A i \in DOMAIN lastOps :
          lastOps[i].op = "rename" =>
              /\ IsDataEndOk(lastMsg)
              /\ lastMsg.path \in DOMAIN before.pending
              /\ lastOps[i].key = Entry(before.fs, FinalPath(lastMsg.path))
              /\ lastOps[i].from =
                    Entry(before.fs, before.pending[lastMsg.path].temp_path)
              /\ \E j \in 1..(i - 1) :
                    /\ lastOps[j].op = "sync_all" /\ lastOps[j].ok
                    /\ lastOps[j].key = Handle(before.pending[lastMsg.path].file)
    /\ \A i \in DOMAIN lastOps :
          lastOps[i].op = "defuse" =>
              \E j \in 1..(i - 1) : lastOps[j].op = "rename" /\ lastOps[j].ok
    /\ IsTransferMsg(lastMsg) /\ ~IsDataEndOk(lastMsg) =>
          Content(fs, inodes, FinalPath(lastMsg.path))
              = Content(before.fs, before.inodes, FinalPath(lastMsg.path))

\* FileEntry, Data, DataEnd(OK) for a.x: the byte written is what a.x holds,
\* after a sync_all, a rename and a defuse in this order.
C4_Witness ==
    /\ IsDataEndOk(lastMsg) /\ lastResult
    /\ lastMsg.path = <<"a", ".", "x">>
    /\ Content(fs, inodes, FinalPath(lastMsg.path)) = [kind |-> "file", data |-> <<7>>]
    /\ Content(before.fs, before.inodes, FinalPath(lastMsg.path))
          = [kind |-> "file", data |-> <<1, 2>>]
    /\ \E i, j, k \in DOMAIN lastOps :
          /\ i < j /\ j < k
          /\ lastOps[i].op = "sync_all" /\ lastOps[j].op = "rename"
          /\ lastOps[k].op = "defuse"

-----------------------------------------------------------------------------
(* C5 *)

\* msgs is, for every work item of items in order, one run: for a File, a
\* FileEntry, Data messages and a DataEnd of its path and nothing between;
\* for any other item, the item passed on.
RECURSIVE Runs(_, _)
Runs(items, msgs) ==
    IF items = <<>> THEN msgs = <<>>
    ELSE IF msgs = <<>> THEN FALSE
    ELSE IF Head(items).type # "File"
    THEN msgs[1] = Head(items) /\ Runs(Tail(items), Tail(msgs))
    ELSE /\ msgs[1].type = "FileEntry" /\ msgs[1].path = Head(items).path
         /\ \E n \in 2..Len(msgs) :
               /\ msgs[n].type = "DataEnd" /\ msgs[n].path = Head(items).path
               /\ \A k \in 2..(n - 1) :
                     msgs[k].type = "Data" /\ msgs[k].path = Head(items).path
               /\ Runs(Tail(items), SubSeq(msgs, n + 1, Len(msgs)))

\* C5: the output of the Sender is, for the work items it has consumed in
\* their order, one contiguous run each: for a File exactly one FileEntry,
\* then Data messages, then exactly one DataEnd, all of its path.
C5_Runs == Runs(consumed, sent)

-----------------------------------------------------------------------------
(* C6 *)

-----------------------------------------------------------------------------
(* C7, C8: the Generator *)

Range(q) == { q[i] : i \in DOMAIN q }

\* The entries of the source scan, gone through or not.
SourceScan == Range(scan_done) \cup Range(scan)

\* A scanned regular file the destination reported with the same size and
\* the same mtime.
QuickCheckHit(e) ==
    /\ ~e.is_dir /\ ~e.is_symlink
    /\ e.relative_path \in DOMAIN dest_all
    /\ dest_all[e.relative_path].size = e.size
    /\ dest_all[e.relative_path].mtime = e.mtime

FileItems == { i \in DOMAIN tx : tx[i].type = "File" }

RECURSIVE SizeSum(_)
SizeSum(I) ==
    IF I = {} THEN 0
    ELSE LET i == CHOOSE j \in I : TRUE IN tx[i].size + SizeSum(I \ {i})

\* C7: a scanned regular file that the destination index holds with equal
\* size and equal mtime gets no work item of any type, is in the index no
\* longer once the loop has gone through it, and is counted by no FileEnd:
\* the totals of FileEnd are the number and the sizes of the File items sent.
C7_QuickCheckSkip ==
    /\ \A e \in Range(scan_done) : QuickCheckHit(e) =>
          /\ \A i \in DOMAIN tx :
                tx[i].type = "FileEnd" \/ tx[i].type = "DeleteEnd"
                \/ tx[i].path # e.relative_path
          /\ e.relative_path \notin DOMAIN dest_index
          /\ e.relative_path \notin deletes_left
    /\ \A i \in DOMAIN tx : tx[i].type = "FileEnd" =>
          /\ tx[i].total_files = Cardinality(FileItems)
          /\ tx[i].total_bytes = SizeSum(FileItems)

\* A run with deletes enabled is over, it skipped a regular file and sent
\* another.
C7_Witness ==
    /\ gen_pc = "done" /\ gen_delete_enabled
    /\ \E e \in Range(scan_done) : QuickCheckHit(e)
    /\ FileItems # {}

DeleteItems == { i \in DOMAIN tx : tx[i].type = "Delete" }

\* The paths the destination reported that are the path of no scanned entry.
Unmatched ==
    { p \in DOMAIN dest_all : \A e \in SourceScan : e.relative_path # p }

\* C8: once run has returned, with delete_enabled the Delete items are one
\* for each destination path no scanned entry has, none twice, each with the
\* is_dir of the destination entry, and DeleteEnd counts them; without
\* delete_enabled there is no Delete and no DeleteEnd. At no time is there a
\* Delete for a path of the source scan.
C8_DeleteDetection ==
    /\ gen_pc = "done" /\ gen_delete_enabled =>
          /\ { tx[i].path : i \in DeleteItems } = Unmatched
          /\ Cardinality(DeleteItems) = Cardinality(Unmatched)
          /\ \A i \in DeleteItems : tx[i].is_dir = dest_all[tx[i].path].is_dir
          /\ tx[Len(tx)] = [type |-> "DeleteEnd", count |-> Cardinality(Unmatched)]
    /\ ~gen_delete_enabled =>
          \A i \in DOMAIN tx : tx[i].type \notin {"Delete", "DeleteEnd"}
    /\ \A i \in DeleteItems : \A e \in SourceScan : tx[i].path # e.relative_path

\* A run with deletes enabled is over: it deleted a directory and left a
\* path alone that the source has.
C8_Witness ==
    /\ gen_pc = "done" /\ gen_delete_enabled
    /\ \E i \in DeleteItems : tx[i].is_dir
    /\ \E e \in SourceScan : e.relative_path \in DOMAIN dest_all

-----------------------------------------------------------------------------
(* C9: read_frame and the frame size *)

\* The length header read is above 64 MiB = 04 00 00 00.
Above64MiB ==
    /\ Len(frame_len) = 4
    /\ \/ frame_len[1] > 4
       \/ frame_len[1] = 4 /\ \E i \in 2..4 : frame_len[i] > 0

SizeError == Err("Frame size exceeds maximum allowed size")

\* C9: a length header above 64 MiB makes read_frame return the size error
\* when only the four bytes of the length have been read: the type byte and
\* the payload are unread and no payload buffer has been allocated. A length
\* of 64 MiB or less never gets the size error.
C9_FrameSizeLimit ==
    /\ Above64MiB /\ frame_pc # "check" =>
          /\ frame_pc = "done" /\ frame_result = SizeError
          /\ wire_pos = 4 /\ ~frame_type.some /\ ~frame_alloc.some
          /\ frame_payload = <<>>
    /\ wire_pos > 4 \/ frame_type.some \/ frame_alloc.some => ~Above64MiB
    /\ frame_result = SizeError => Above64MiB

\* read_frame has rejected a length above 64 MiB with the type byte and
\* payload bytes waiting in the stream.
C9_Witness ==
    /\ frame_pc = "done" /\ Above64MiB /\ frame_result = SizeError
    /\ Len(wire) > 5

-----------------------------------------------------------------------------
(* C10: encode, read_frame, decode *)

\* C10: the payload of encode(m), decoded by the type of the frame, is m
\* in every field, and the length header of encode(m) is the number of
\* bytes after the type byte.
C10_RoundTrip ==
    /\ frame_pc = "decoded" => got_msg = Ok(sent_msg)
    /\ wire # <<>> => FromBE(SubSeq(wire, 1, 4)) = Len(wire) - 5

-----------------------------------------------------------------------------
(* C11 *)

FirstHello(s) ==
    /\ got[s] # <<>> /\ got[s][1].type = "Hello" /\ Decodable(got[s][1])

\* C11: a server that has received a Hello whose version is not 2 has
\* answered with a Fatal frame and ended the session without entering the
\* Initial Exchange or the Transfer, and negotiate_version classifies 2 and
\* only 2 as Supported, what is below as TooOld and what is above as TooNew.
C11_VersionRejected ==
    /\ FirstHello("server") /\ got["server"][1].version # 2
         => /\ wrote["server"] # <<>>
            /\ wrote["server"][1].type = "Fatal"
            /\ Returned("server")
            /\ sess_mode["server"] = "none"
    /\ \A v \in 0..4 :
          negotiate_version(v).result =
             (IF v < 2 THEN "TooOld" ELSE IF v > 2 THEN "TooNew" ELSE "Supported")

-----------------------------------------------------------------------------
(* C12 *)

\* C12: a server that has ended the session on a protocol violation, its
\* output stream still writable, has written a Fatal frame last.
C12_FatalWritten ==
    pc["server"] = "err" /\ ~Returned("client")
       => wrote["server"] # <<>> /\ Last(wrote["server"]).type = "Fatal"

-----------------------------------------------------------------------------
(* C13 *)

HasDataEnd(path) ==
    \E k \in DOMAIN sent : sent[k].type = "DataEnd" /\ sent[k].path = path

\* C13: the Sender never aborts on a file it cannot open or read: every
\* File work item it has consumed has its DataEnd in the output (with
\* status error when the file failed), and run goes on to the work items
\* that remain.
C13_PerFileRecovery ==
    /\ sender_result # "err"
    /\ \A i \in DOMAIN consumed :
          consumed[i].type = "File" => HasDataEnd(consumed[i].path)

-----------------------------------------------------------------------------
(* C14 *)

\* Where the process runs: deep enough that no target of the model climbs
\* past the root directory.
Cwd == <<RootDir, <<"h">>, <<"u">>, <<"w">>, <<"v">>>>

\* The place a path names, its ".." taken as the kernel takes them.
Place(path) ==
    LET comps == IF is_absolute(path) THEN Components(path)
                 ELSE Cwd \o Components(path)
        RECURSIVE Fold(_, _)
        Fold(i, at) ==
            IF i > Len(comps) THEN at
            ELSE IF comps[i] = ParentDir THEN Fold(i + 1, pop(at))
            ELSE IF comps[i] = CurDir THEN Fold(i + 1, at)
            ELSE Fold(i + 1, Append(at, comps[i]))
    IN Fold(1, <<>>)

\* The target of the link at rel, resolved from the link's parent, is in the
\* root.
TargetInRoot(root, rel, target) ==
    IsPrefix(Place(root), Place(join(parent(join(root, rel)), target)))

\* C14: the Receiver has created a symlink only if its target is relative
\* and, resolved from the link's parent directory, stays within the root,
\* whatever the root and the target are; a Symlink it rejects has created
\* nothing and removed nothing.
C14_SymlinkInRoot ==
    lastMsg.type = "Symlink"
       => /\ lastResult => /\ ~is_absolute(lastMsg.target)
                           /\ TargetInRoot(config_root, lastMsg.path, lastMsg.target)
          /\ ~lastResult => fs = before.fs

-----------------------------------------------------------------------------
(* C15 *)

Types(frames) == { frames[i].type : i \in DOMAIN frames }

TransferTypes ==
    {"FileEntry", "Data", "DataEnd", "Mkdir", "Symlink", "Delete", "FileEnd",
     "DeleteEnd"}

\* C15: in a push session the server has written its Hello only after it
\* read the client's Hello, it has written no DestFileEntry after its
\* DestFileEnd, and the client has written a transfer message only after it
\* read the server's Hello and DestFileEnd.
C15_PhaseOrder ==
    sess_mode["client"] = "push"
       => /\ wrote["server"] # <<>>
               => /\ wrote["server"][1].type = "Hello"
                  /\ got["server"] # <<>> /\ got["server"][1].type = "Hello"
          /\ \A i, j \in DOMAIN wrote["server"] :
                wrote["server"][i].type = "DestFileEnd" /\ i < j
                   => wrote["server"][j].type # "DestFileEntry"
          /\ Types(wrote["client"]) \cap TransferTypes # {}
               => {"Hello", "DestFileEnd"} \subseteq Types(got["client"])

\* A push has sent a file to a server that reported an entry of its own.
C15_Witness ==
    /\ sess_mode["client"] = "push"
    /\ "DataEnd" \in Types(wrote["client"])
    /\ {"DestFileEntry", "DestFileEnd"} \subseteq Types(wrote["server"])

-----------------------------------------------------------------------------
(* C16 *)

DonesOf(frames) == { i \in DOMAIN frames : frames[i].type = "Done" }

\* C16: in push mode the server has written at most one Done, after it read
\* the client's Done, and that Done carries the number of files renamed into
\* place at a DataEnd(OK) as files_ok, the number of pending files ended by
\* a DataEnd(error) as files_err, and the sum of the Data payload lengths of
\* the files renamed as bytes; once run_server_push has returned Ok it has
\* written one.
C16_SummaryDone ==
    sess_mode["server"] = "push"
       => /\ Cardinality(DonesOf(wrote["server"])) <= 1
          /\ pc["server"] = "done" => Cardinality(DonesOf(wrote["server"])) = 1
          /\ \A i \in DonesOf(wrote["server"]) :
                /\ "Done" \in Types(got["server"])
                /\ i = Len(wrote["server"])
                /\ wrote["server"][i].files_ok = tally.renamed
                /\ wrote["server"][i].files_err = tally.errored
                /\ wrote["server"][i].bytes = tally.bytes

\* Two files of one and of two bytes were sent: Done{files_ok = 2, bytes = 3}.
C16_Witness ==
    /\ sess_mode["server"] = "push"
    /\ \E i \in DonesOf(wrote["server"]) :
          /\ wrote["server"][i].files_ok = 2
          /\ wrote["server"][i].bytes = 3
          /\ tally.renamed = 2

-----------------------------------------------------------------------------
(* C17 *)

\* C17: a push that has returned Ok has read the peer's Done as its last
\* frame and returns the files_ok, files_err and bytes of that Done; when the
\* frame in its place is not a Done, push has not reported success.
C17_SuccessOnlyOnDone ==
    sess_mode["client"] = "push" /\ pc["client"] = "done" /\ result["client"].ok
       => /\ got["client"] # <<>>
          /\ Last(got["client"]).type = "Done"
          /\ result["client"].value.files_ok = Last(got["client"]).files_ok
          /\ result["client"].value.files_err = Last(got["client"]).files_err
          /\ result["client"].value.bytes_transferred = Last(got["client"]).bytes

-----------------------------------------------------------------------------
(* C18 *)

SourceSide == IF sess_mode["client"] = "push" THEN "client" ELSE "server"

\* Both processes have returned Ok, the Initial Exchange was read to its
\* DestFileEnd, nothing is left in a channel or in a pipe, and the Done of
\* the server was read by the client.
SessionComplete ==
    /\ pc = [s \in Sides |-> "done"]
    /\ result["client"].ok /\ result["server"].ok
    /\ "DestFileEnd" \in Types(got[SourceSide])
    /\ gen_pc = "done" /\ sender_result = "ok" /\ scan_task = "ok"
    /\ rx = <<>> /\ scan_q = <<>> /\ delivered = Len(sent)
    /\ pipe = [s \in Sides |-> <<>>]
    /\ got["server"] = wrote["client"] /\ got["client"] = wrote["server"]
    /\ Last(got["client"]).type = "Done"

\* C18: a push or a pull session of this client with this server, every
\* task scheduled fairly and no I/O error, comes to its end: no task waits
\* forever, every frame is delivered, the Done is exchanged and both
\* processes terminate.
C18_SessionTerminates == <>SessionComplete

\* A session that transferred a file has come to its end.
C18_Witness ==
    /\ SessionComplete
    /\ "DataEnd" \in Types(got["client"]) \cup Types(got["server"])


\* The indices of a sequence of items or frames at which a type stands.
At(seq, types) == { i \in 1..Len(seq) : seq[i].type \in types }

\* What the Generator emits before FileEnd, and what the Sender makes of it.
FileTypes == {"File", "Mkdir", "Symlink", "FileEntry", "Data", "DataEnd"}

Ordered(seq) ==
    /\ Cardinality(At(seq, {"FileEnd"})) <= 1
    /\ \A i \in At(seq, FileTypes) : \A j \in At(seq, {"FileEnd"}) : i < j
    /\ \A i \in At(seq, {"Delete"}) : \E j \in At(seq, {"FileEnd"}) : j < i
    /\ At(seq, {"DeleteEnd"}) \subseteq {Len(seq)}

\* C19: in the output of the Generator and in the output of the Sender,
\* FileEnd comes once, after every File, Mkdir and Symlink item (after the
\* frames of every file); every Delete comes after FileEnd; DeleteEnd, when
\* it is emitted, comes once and is the last message.  Once the Generator
\* has returned Ok its FileEnd is there, and its DeleteEnd is there exactly
\* when deletes are enabled; once the Sender has taken every item and
\* returned Ok its output has as many FileEnd, Delete and DeleteEnd as the
\* Generator's.
C19_EndMarkers ==
    /\ Ordered(tx) /\ Ordered(sent)
    /\ gen_pc \in {"delete", "done"} => At(tx, {"FileEnd"}) # {}
    /\ gen_pc = "done" => (At(tx, {"DeleteEnd"}) # {} <=> gen_delete_enabled)
    /\ sender_result = "ok" /\ gen_pc = "done" /\ consumed = tx =>
          \A t \in {"FileEnd", "Delete", "DeleteEnd"} :
             Cardinality(At(sent, {t})) = Cardinality(At(tx, {t}))

\* The Generator and the Sender are through with a file, a FileEnd, a
\* Delete and a DeleteEnd.
C19_Witness ==
    /\ gen_pc = "done" /\ sender_result = "ok"
    /\ At(sent, {"FileEntry"}) # {} /\ At(sent, {"Delete"}) # {}
    /\ At(sent, {"DeleteEnd"}) = {Len(sent)}
    /\ At(tx, {"File"}) # {}


\* A scanned entry that is a regular file with more than one link.
IsLinked(entry) == ~entry.is_dir /\ ~entry.is_symlink /\ entry.nlink > 1

\* The first scanned entry that is another name of the j-th one.
FirstName(j) ==
    CHOOSE i \in 1..j :
       /\ IsLinked(scan_done[i]) /\ scan_done[i].inode = scan_done[j].inode
       /\ \A h \in 1..(i - 1) :
             ~(IsLinked(scan_done[h]) /\ scan_done[h].inode = scan_done[j].inode)

\* C20: when the scan holds two regular files with nlink > 1 and the same
\* inode, the work item sent for the second one, and the FileEntry the
\* Sender makes of it, carry a hardlink target that is the relative path of
\* the first one.
C20_HardlinkTarget ==
    \A j \in 1..Len(scan_done) :
       IsLinked(scan_done[j]) /\ FirstName(j) < j =>
          \A k \in At(tx, {"File"}) :
             tx[k].path = scan_done[j].relative_path =>
                /\ "link_target" \in DOMAIN tx[k]
                /\ tx[k].link_target = Some(scan_done[FirstName(j)].relative_path)
                /\ FileEntryMsg(tx[k]).link_target =
                      Some(scan_done[FirstName(j)].relative_path)


\* The source files as the Sender finds them when it takes the items of the
\* Generator: it reads what is there, whatever size the scan saw.
GenFiles == [p \in GenPaths |-> <<1, 2>>]

\* The frames of process_file for a work item, the file read in one read.
FramesOf(job) == process_file(GenFiles, job, FALSE, <<2>>, 0).msgs

\* The body is a delta body: its Data frames carry ops.
DeltaBody(frames) ==
    \A i \in At(frames, {"Data"}) : "DELTA" \in frames[i].flags

FullBody(frames) ==
    \A i \in At(frames, {"Data"}) : "DELTA" \notin frames[i].flags

\* The destination reported the path with checksums.
CarriedChecksums(path) ==
    path \in DOMAIN dest_all /\ dest_all[path].delta_info.some

\* C21: a File work item of the Generator has need_delta exactly when the
\* source size is at least DELTA_MIN_SIZE and the destination reported the
\* path with checksums; it has a DeltaInfo, the one of the destination,
\* exactly when it has need_delta; and the Sender sends a delta body for
\* exactly these items and a full body for the others.
C21_DeltaDecision ==
    \A k \in At(tx, {"File"}) :
       /\ tx[k].need_delta <=>
             tx[k].size >= DELTA_MIN_SIZE /\ CarriedChecksums(tx[k].path)
       /\ tx[k].checksums.some <=> tx[k].need_delta
       /\ tx[k].need_delta => tx[k].checksums = dest_all[tx[k].path].delta_info
       /\ At(FramesOf(tx[k]), {"Data"}) # {}
       /\ IF tx[k].need_delta THEN DeltaBody(FramesOf(tx[k]))
          ELSE FullBody(FramesOf(tx[k]))

\* The Generator sent a large file the destination has checksums for and a
\* small one the destination has checksums for.
C21_Witness ==
    /\ \E k \in At(tx, {"File"}) : tx[k].need_delta
    /\ \E k \in At(tx, {"File"}) :
          tx[k].size < DELTA_MIN_SIZE /\ CarriedChecksums(tx[k].path)


-----------------------------------------------------------------------------
(* C22 *)

\* The frames from the second on are DestFileEntry frames and then, last,
\* one DestFileEnd.
InventoryRead(frames) ==
    /\ Len(frames) >= 2 /\ frames[Len(frames)].type = "DestFileEnd"
    /\ \A i \in 2..(Len(frames) - 1) : frames[i].type = "DestFileEntry"

\* The server in the source role: it streams no inventory and applies no
\* message; its Generator starts when DestFileEnd has been read, from an
\* index of the entries read, and nothing is read after; it deletes as the
\* DELETE flag says; it writes transfer frames and ends with one Done.
SourceRole(hello) ==
    /\ Types(wrote["server"]) \cap {"DestFileEntry", "DestFileEnd"} = {}
    /\ scan_task = "off" /\ handled = 0
    /\ gen_pc # "exchange" <=> "DestFileEnd" \in Types(got["server"])
    /\ gen_pc # "exchange" =>
          /\ InventoryRead(got["server"])
          /\ DOMAIN dest_all =
                { got["server"][i].path : i \in At(got["server"], {"DestFileEntry"}) }
    /\ Types(wrote["server"]) \subseteq {"Hello", "Done"} \cup TransferTypes
    /\ gen_delete_enabled <=> "DELETE" \in hello.flags
    /\ gen_pc = "done" =>
          ("DeleteEnd" \in Types(tx) <=> "DELETE" \in hello.flags)
    /\ "Delete" \in Types(wrote["server"]) => "DELETE" \in hello.flags
    /\ At(wrote["server"], {"Done"}) \subseteq {Len(wrote["server"])}
    /\ pc["server"] = "done" =>
          /\ Last(wrote["server"]).type = "Done"
          /\ gen_pc = "done" /\ sender_result = "ok"
          /\ delivered = Len(sent)
          /\ SubSeq(wrote["server"], 2, Len(wrote["server"]) - 1) = sent

\* The server in the destination role: its Generator and its Sender never
\* run; it streams its inventory, and only then reads and applies messages,
\* every frame it reads but the Done; it writes its Done only when it has
\* read one, and then returns.
DestRole ==
    /\ gen_pc = "exchange" /\ tx = <<>> /\ sent = <<>> /\ dest_all = <<>>
    /\ Types(wrote["server"]) \subseteq
          {"Hello", "DestFileEntry", "DestFileEnd", "Done"}
    /\ Len(got["server"]) > 1 =>
          /\ scan_task = "ok"
          /\ "DestFileEnd" \in Types(wrote["server"])
    /\ handled <= Len(got["server"]) - 1
    /\ \A i \in 2..(Len(got["server"]) - 1) : got["server"][i].type # "Done"
    /\ "Done" \in Types(wrote["server"]) <=> pc["server"] = "done"
    /\ pc["server"] = "done" =>
          /\ Last(got["server"]).type = "Done"
          /\ Last(wrote["server"]).type = "Done"
          /\ handled = Len(got["server"]) - 2

\* C22: the server that has read the client's Hello and answered it has the
\* source role exactly when the Hello has the PULL flag, and the destination
\* role otherwise; before that it has no role.  In the source role its
\* Generator deletes exactly when the Hello has the DELETE flag.
C22_RoleByPull ==
    /\ sess_mode["server"] # "none" <=>
          FirstHello("server") /\ pc["server"] # "hello"
    /\ sess_mode["server"] # "none" =>
          /\ wrote["server"][1] = Hello_new({}, <<>>)
          /\ Source("server") <=> "PULL" \in got["server"][1].flags
          /\ Dest("server") <=> "PULL" \notin got["server"][1].flags
          /\ Source("server") => SourceRole(got["server"][1])
          /\ Dest("server") => DestRole

\* A server has served a pull with DELETE to its Done and sent a Delete.
C22_Witness ==
    /\ Source("server") /\ pc["server"] = "done"
    /\ "DELETE" \in got["server"][1].flags
    /\ {"Delete", "DeleteEnd", "FileEntry"} \subseteq Types(wrote["server"])


-----------------------------------------------------------------------------
(* C23 *)

\* C23: the temp file of a pending entry is at its final path with ".sy.tmp"
\* appended, two pending entries for distinct final paths have distinct
\* temp paths, and no temp file is the temp file of two pending entries.
C23_TempPathPerEntry ==
    /\ \A p \in DOMAIN pending_files :
          pending_files[p].temp_path = FinalPath(p) \o <<".">> \o SyTmp
    /\ \A p, q \in DOMAIN pending_files :
          FinalPath(p) # FinalPath(q) =>
             /\ pending_files[p].temp_path # pending_files[q].temp_path
             /\ pending_files[p].file # pending_files[q].file


-----------------------------------------------------------------------------
(* C24 *)

-----------------------------------------------------------------------------
(* C25 *)

\* The longest path the protocol can carry: its length is a u16.
MaxPathBytes == 65535

\* C25: every Data(DELTA) payload send_delta has sent is at most
\* DELTA_CHUNK_SIZE bytes long, and the frame that carries it, whatever the
\* path, is within the MAX_FRAME_SIZE that read_frame accepts.
C25_DeltaPayloadCap ==
    \A k \in DOMAIN data_lens :
       /\ data_lens[k] <= DELTA_CHUNK_SIZE
       /\ data_payload_len(MaxPathBytes, data_lens[k]) <= MAX_FRAME_SIZE


-----------------------------------------------------------------------------
(* C26 *)

\* The checksum list starts where it starts and goes on block by block.
Contiguous(checksums, block_size) ==
    \A i \in 1..(Len(checksums) - 1) :
       checksums[i + 1].offset = checksums[i].offset + block_size

\* C26: a DestFileEntry with HAS_CHECKSUMS that decode has accepted, as
\* add_dest_entry puts it into the destination index, has a block size
\* above 0 and a contiguous checksum list.
C26_ChecksumsWellFormed ==
    got_msg.ok /\ got_msg.value.type = "DestFileEntry"
    /\ "HAS_CHECKSUMS" \in got_msg.value.flags
       => /\ DestFileState(got_msg.value).delta_info.some
          /\ DestFileState(got_msg.value).delta_info.value.block_size > 0
          /\ Contiguous(DestFileState(got_msg.value).delta_info.value.checksums,
                        DestFileState(got_msg.value).delta_info.value.block_size)

-----------------------------------------------------------------------------
(* C27 *)

\* The message round-trips: its payload holds what its flags and length
\* fields declare, and nothing else.
Canonical(m) == decode(MessageType[m.type], put_payload(m)) = Ok(m)

IsProperPrefix(s, t) == Len(s) < Len(t) /\ s = SubSeq(t, 1, Len(s))

\* C27: decode of a payload shorter than its length fields require (a
\* proper prefix of a valid payload, or a valid payload with a length field
\* raised above the bytes that remain) returns an error and never reads
\* past the end of the payload, whatever the message type; no payload makes
\* decode read past the end; and DestFileEntry::decode asks for its vector
\* of count checksums only when count * 20 bytes remain.
C27_ShortPayload ==
    frame_pc = "decoded" =>
        /\ got_msg # Panic
        /\ Canonical(sent_msg) => ~got_msg.ok
        /\ ~got_msg.ok => frame_alloc = None

C27_Witness ==
    /\ frame_pc = "decoded" /\ ~got_msg.ok
    /\ sent_msg.type = "DestFileEntry" /\ Canonical(sent_msg)
    /\ Len(sent_msg.checksums) = 2
    /\ IsProperPrefix(frame_payload, put_payload(sent_msg))
    /\ Len(frame_payload) = Len(put_payload(sent_msg)) - 1

-----------------------------------------------------------------------------
(* C28 *)

\* The step handles a DataEnd with status = error for a path that is pending.
DataEndErrorStep ==
    /\ handled' = handled + 1
    /\ lastMsg'.type = "DataEnd" /\ lastMsg'.status = STATUS_ERROR
    /\ lastMsg'.path \in DOMAIN pending_files

\* What the handler of DataEnd(error) is said to do.
DataEndErrorDone ==
    /\ lastResult'
    /\ lastMsg'.path \notin DOMAIN pending_files'
    /\ Node(fs', Entry(fs', pending_files[lastMsg'.path].temp_path)).kind = "absent"
    /\ stats'.files_err = stats.files_err + 1
    /\ stats'.files_ok = stats.files_ok
    /\ stats'.bytes_transferred = stats.bytes_transferred
    /\ Content(fs', inodes', FinalPath(lastMsg'.path))
          = Content(fs, inodes, FinalPath(lastMsg'.path))

SyncFailed(ops) == \E i \in DOMAIN ops : ops[i].op = "sync_all" /\ ~ops[i].ok

\* C28: the handler of a DataEnd with status = error for a pending path
\* removes the pending entry and the temp file, adds one to files_err, leaves
\* files_ok, bytes_transferred and what the final path holds as they were,
\* and returns Ok.
C28_DataEndError == [][DataEndErrorStep => DataEndErrorDone]_vars

C28_UnlessSyncFails ==
    [][DataEndErrorStep /\ ~SyncFailed(lastOps') => DataEndErrorDone]_vars

-----------------------------------------------------------------------------
(* C29 *)

\* The step handles a Data for a path that has no pending entry.
DataNotPendingStep ==
    /\ handled' = handled + 1
    /\ lastMsg'.type = "Data"
    /\ lastMsg'.path \notin DOMAIN pending_files

\* C29: the handler of a Data whose path has no pending entry returns an
\* error, calls nothing of the file system, and leaves the pending map, the
\* statistics and the file system as they were.
C29_DataNotPending ==
    [][DataNotPendingStep =>
          /\ ~lastResult'
          /\ lastOps' = <<>>
          /\ pending_files' = pending_files
          /\ stats' = stats
          /\ fs' = fs /\ inodes' = inodes]_vars

\* a.x was transferred and renamed into place, and a Data for a.x follows
\* its DataEnd.
C29_Witness ==
    /\ lastMsg.type = "Data" /\ lastMsg.path = <<"a", ".", "x">>
    /\ lastMsg.path \notin DOMAIN before.pending
    /\ ~lastResult
    /\ "DataEnd" \in seen /\ stats.files_ok = 1

-----------------------------------------------------------------------------
(* C30 *)

SixteenMiB == 16 * 1024 * 1024

\* The ops of a delta payload d from byte i on, read by the rules of the
\* claim against an original of file_size bytes: how many ops come before
\* the first one to reject, the bytes they put out, and whether there is
\* one to reject.
RECURSIVE ReadOps(_, _, _, _, _)
ReadOps(d, i, original, n, out) ==
    IF i > Len(d) THEN [rejected |-> FALSE, applied |-> n, out |-> out]
    ELSE IF d[i] = 0 /\ Len(d) - i >= 12
    THEN Then(FromBE(SubSeq(d, i + 1, i + 8)), LAMBDA offset :
         Then(FromBE(SubSeq(d, i + 9, i + 12)), LAMBDA size :
         IF size > SixteenMiB \/ offset + size > Len(original)
         THEN [rejected |-> TRUE, applied |-> n, out |-> out]
         ELSE ReadOps(d, i + 13, original, n + 1,
                      out \o SubSeq(original, offset + 1, offset + size))))
    ELSE IF d[i] = 1 /\ Len(d) - i >= 4
    THEN Then(FromBE(SubSeq(d, i + 1, i + 4)), LAMBDA size :
         IF size > SixteenMiB \/ size > Len(d) - i - 4
         THEN [rejected |-> TRUE, applied |-> n, out |-> out]
         ELSE ReadOps(d, i + 5 + size, original, n + 1,
                      out \o SubSeq(d, i + 5, i + 4 + size)))
    ELSE [rejected |-> TRUE, applied |-> n, out |-> out]

Writes(ops) == SelectSeq(ops, LAMBDA o : o.op = "write")

\* The step handles a Data with the DELTA flag for a path that is pending.
DeltaStep ==
    /\ handled' = handled + 1
    /\ lastMsg'.type = "Data" /\ "DELTA" \in lastMsg'.flags
    /\ lastMsg'.path \in DOMAIN pending_files

Original(path) == Node(fs, Target(fs, FinalPath(path)))

TempFile(path) == pending_files[path].file

\* C30: of a Data(DELTA) payload for a pending path, the Receiver applies
\* the ops in order and returns an error at the first Copy of more than
\* 16 MiB or past the end of the file at the final path, Insert of more than
\* 16 MiB or of more bytes than the payload has left, op header cut short or
\* unknown opcode, having written what the ops before it put out and nothing
\* for that op; with nothing at the final path it returns an error and
\* writes nothing.
C30_DeltaRejects ==
    [][DeltaStep =>
          /\ Original(lastMsg'.path).kind = "absent" =>
                ~lastResult' /\ lastOps' = <<>> /\ inodes' = inodes
          /\ Original(lastMsg'.path).kind = "file" =>
                Then(ReadOps(lastMsg'.data, 1,
                             inodes[Original(lastMsg'.path).ino].data, 0, <<>>),
                     LAMBDA ops :
                ops.rejected =>
                   /\ ~lastResult'
                   /\ Len(Writes(lastOps')) <= ops.applied
                   /\ (\A i \in DOMAIN lastOps' : lastOps'[i].ok) =>
                         /\ Len(Writes(lastOps')) = ops.applied
                         /\ inodes'[TempFile(lastMsg'.path).ino].data
                               = Overwrite(inodes[TempFile(lastMsg'.path).ino].data,
                                           TempFile(lastMsg'.path).pos, ops.out))]_vars

\* a.x holds two bytes; the payload for its pending transfer is Copy{0, 1}
\* and an Insert that declares two bytes with one left: the copied byte is
\* in the temp file and nothing of the Insert.
C30_Witness ==
    /\ lastMsg.type = "Data" /\ lastMsg.path = <<"a", ".", "x">>
    /\ lastMsg.data = DeltaCopy(0, 1) \o DeltaInsertHeader(2) \o <<9>>
    /\ lastMsg.path \in DOMAIN before.pending
    /\ ~lastResult
    /\ Len(Writes(lastOps)) = 1
    /\ inodes[before.pending[lastMsg.path].file.ino].data = <<1>>

-----------------------------------------------------------------------------
(* C40 *)

\* The step handles a DataEnd for a path that has no pending entry.
DataEndNotPendingStep ==
    /\ handled' = handled + 1
    /\ lastMsg'.type = "DataEnd"
    /\ lastMsg'.path \notin DOMAIN pending_files

\* C40: the handler of a DataEnd, of either status, whose path has no
\* pending entry returns Ok, calls nothing of the file system and leaves the
\* pending map, the statistics (files_ok, files_err and bytes_transferred
\* among them) and the file system as they were.
C40_DataEndNotPending ==
    [][DataEndNotPendingStep =>
          /\ lastResult'
          /\ lastOps' = <<>>
          /\ pending_files' = pending_files
          /\ stats' = stats
          /\ fs' = fs /\ inodes' = inodes]_vars

\* a.x was transferred and renamed into place, and a second DataEnd for a.x
\* with status = error follows the first.
C40_Witness ==
    /\ lastMsg.type = "DataEnd" /\ lastMsg.status = STATUS_ERROR
    /\ lastMsg.path = <<"a", ".", "x">>
    /\ lastMsg.path \notin DOMAIN before.pending
    /\ lastResult
    /\ stats.files_ok = 1 /\ stats.files_err = 0

-----------------------------------------------------------------------------
(* C39 *)

\* The step handles a message of a type that has no handler.
InfoStep ==
    /\ handled' = handled + 1
    /\ lastMsg'.type \in {"FileEnd", "DeleteEnd"} \cup OtherTypes

\* FileEnd::decode and DeleteEnd::decode succeed: two u64, one u64.
EndDecodes(msg) ==
    /\ msg.type = "FileEnd" => Len(msg.payload) >= 16
    /\ msg.type = "DeleteEnd" => Len(msg.payload) >= 8

\* C39: the handling of a FileEnd, a DeleteEnd, or a message of a type of
\* another phase (Hello, DestFileEntry, DestFileEnd, Progress, Error, Fatal,
\* Xattr) calls nothing of the file system and leaves the pending map, the
\* statistics and the file system as they were; it returns Ok, unless it is
\* a FileEnd or a DeleteEnd whose payload does not decode.
C39_Informational ==
    [][InfoStep =>
          /\ lastOps' = <<>>
          /\ pending_files' = pending_files
          /\ stats' = stats
          /\ fs' = fs /\ inodes' = inodes
          /\ lastResult' = EndDecodes(lastMsg')]_vars

\* A transfer of a.x is pending with a byte written, and a Fatal arrives.
C39_Witness ==
    /\ lastMsg.type = "Fatal" /\ lastResult
    /\ <<"a", ".", "x">> \in DOMAIN pending_files
    /\ pending_files[<<"a", ".", "x">>].bytes_written = 1

-----------------------------------------------------------------------------
(* C38 *)

\* The temp file of the pending entry of path p is on disk: its temp path
\* names the file its handle is open on.
TempOnDisk(p) ==
    Node(fs, Entry(fs, pending_files[p].temp_path))
        = FileNode(pending_files[p].file.ino)

\* C38: between messages, the temp file of every entry of the pending map
\* (a map: one entry per path) is on disk, also after a second FileEntry for
\* a path that is pending.
C38_PendingTempExists == \A p \in DOMAIN pending_files : TempOnDisk(p)

\* C38, the case it names: after a second FileEntry for a path that is
\* pending is handled, the temp file of the entry of that path is on disk.
C38_AfterSecondFileEntry ==
    /\ lastMsg.type = "FileEntry" /\ lastResult
    /\ lastMsg.path \in DOMAIN before.pending
    => TempOnDisk(lastMsg.path)

-----------------------------------------------------------------------------
(* C33 *)

IsFullData(m) == m.type = "Data" /\ "DELTA" \notin m.flags

DataEndOf(m) == m.offset + Len(m.data)

\* In what the Sender emits, every Data of a full transfer has between 1 and
\* DATA_CHUNK_SIZE bytes; the one after the FileEntry has offset 0 and every
\* other has the offset at which the Data before it ended; at the DataEnd the
\* Data messages have covered the L bytes of the file, and for an empty file
\* the DataEnd follows the FileEntry with no Data between.
FullTransferSent ==
    \A i \in DOMAIN sent :
        /\ IsFullData(sent[i]) =>
              /\ Len(sent[i].data) \in 1..DATA_CHUNK_SIZE
              /\ i > 1
              /\ \/ sent[i - 1].type = "FileEntry" /\ sent[i].offset = 0
                 \/ /\ IsFullData(sent[i - 1]) /\ sent[i - 1].path = sent[i].path
                    /\ sent[i].offset = DataEndOf(sent[i - 1])
        /\ sent[i].type = "DataEnd" /\ i > 1 /\ sent[i].path \in DOMAIN src_files =>
              /\ IsFullData(sent[i - 1]) =>
                    DataEndOf(sent[i - 1]) = Len(src_files[sent[i].path])
              /\ sent[i - 1].type = "FileEntry" => src_files[sent[i].path] = <<>>
              /\ src_files[sent[i].path] = <<>> => sent[i - 1].type = "FileEntry"

\* The same of send_full on a file of any length, by the lengths: when
\* send_full returns Ok the Data messages have covered the file.
FullTransferLens ==
    chunk_pc \in {"read", "eof", "read_err"} =>
        /\ \A k \in DOMAIN data_lens :
              /\ data_lens[k] \in 1..DATA_CHUNK_SIZE
              /\ data_hdrs[k].offset
                    = IF k = 1 THEN 0
                      ELSE data_hdrs[k - 1].offset + data_lens[k - 1]
        /\ chunk_pc = "eof" =>
              /\ Sum(data_lens) = full_len
              /\ full_len = 0 => data_lens = <<>>

\* C33: the Data messages of a full transfer of a file of length L have
\* between 1 and DATA_CHUNK_SIZE bytes, the first at offset 0 and each other
\* at the offset where the one before ended; their lengths sum to L, and an
\* empty file has no Data between its FileEntry and its DataEnd.
C33_FullTransfer == FullTransferSent /\ FullTransferLens

\* A file of two buffers and a byte was sent in three Data: a buffer at 0, a
\* buffer at DATA_CHUNK_SIZE and the byte at twice DATA_CHUNK_SIZE.
C33_Witness ==
    /\ chunk_pc = "eof" /\ full_len = 2 * DATA_CHUNK_SIZE + 1
    /\ data_lens = <<DATA_CHUNK_SIZE, DATA_CHUNK_SIZE, 1>>
    /\ data_hdrs[3] = DataHdr(2 * DATA_CHUNK_SIZE, FALSE)

-----------------------------------------------------------------------------
(* C32 *)

\* process_file's choice: the file of the work item is transferred by delta.
ByDelta(job) == job.need_delta /\ job.checksums.some

FileJobs == SelectSeq(consumed, LAMBDA item : item.type = "File")

\* The number of FileEntry messages among the first i the Sender emitted.
EntryCount(i) == Cardinality({ j \in 1..i : sent[j].type = "FileEntry" })

\* The work item of the file the i-th message emitted belongs to.
JobOf(i) == FileJobs[EntryCount(i)]

\* C32: every Data the Sender emits for a file transferred by delta has the
\* DELTA flag and offset 0, in one chunk or in many, and every Data of a
\* full transfer has no DELTA flag.
C32_DeltaFlagAndOffset ==
    /\ \A i \in DOMAIN sent : sent[i].type = "Data" =>
          IF ByDelta(JobOf(i))
          THEN "DELTA" \in sent[i].flags /\ sent[i].offset = 0
          ELSE "DELTA" \notin sent[i].flags
    /\ \A k \in DOMAIN data_hdrs :
          IF chunk_pc \in {"read", "eof", "read_err"}
          THEN ~data_hdrs[k].delta
          ELSE data_hdrs[k].delta /\ data_hdrs[k].offset = 0

\* send_delta has sent the ops of a file in three Data messages.
C32_Witness ==
    /\ chunk_pc = "done" /\ Len(data_hdrs) = 3
    /\ \A k \in 1..3 : data_hdrs[k] = DataHdr(0, TRUE) /\ data_lens[k] > 0

-----------------------------------------------------------------------------
(* C31 *)

\* The length of the serialization of the ops from the i-th to the j-th.
RECURSIVE OpsLen(_, _, _)
OpsLen(ops, i, j) ==
    IF i > j THEN 0 ELSE op_bytes_len(ops[i]) + OpsLen(ops, i + 1, j)

\* The payloads are runs of whole ops, in order: there are cuts of the op
\* stream, between ops, such that each payload is what lies between two cuts.
WholeOps(ops, lens) ==
    \E cut \in [0..Len(lens) -> 0..Len(ops)] :
        /\ cut[0] = 0 /\ cut[Len(lens)] = Len(ops)
        /\ \A k \in 1..Len(lens) :
              /\ cut[k - 1] < cut[k]
              /\ lens[k] = OpsLen(ops, cut[k - 1] + 1, cut[k])

\* What send_delta has sent when it returns Ok holds whole ops only, all of
\* them and in their order.
ChunkingPreserves ==
    chunk_pc \in {"done", "applied", "rejected"} => WholeOps(delta_ops, data_lens)

\* C31: the Data(DELTA) payloads of a file hold whole ops only, their
\* concatenation is the serialization of the ops of the engine in order, and
\* the Receiver, handling them in order, applies every op of them.
C31_OpStreamPreserved == ChunkingPreserves /\ chunk_pc # "rejected"

-----------------------------------------------------------------------------
(* C34 *)

\* The work items of a type among the first n the Generator emitted.
ItemsOf(type, n) == { j \in 1..n : tx[j].type = type }

RECURSIVE SizesTo(_)
SizesTo(n) ==
    IF n = 0 THEN 0
    ELSE SizesTo(n - 1) + (IF tx[n].type = "File" THEN tx[n].size ELSE 0)

\* C34: the FileEnd the Generator emits has the number of the File work
\* items emitted before it and the sum of their sizes, and run, when it
\* returns Ok, returns that pair; the DeleteEnd has the number of the Delete
\* work items emitted.
C34_TotalsMatchEmitted ==
    \A i \in DOMAIN tx :
        /\ tx[i].type = "FileEnd" =>
              /\ tx[i].total_files = Cardinality(ItemsOf("File", i))
              /\ tx[i].total_bytes = SizesTo(i)
              /\ gen_pc = "done" =>
                    totals = [files |-> tx[i].total_files,
                              bytes |-> tx[i].total_bytes]
        /\ tx[i].type = "DeleteEnd" =>
              tx[i].count = Cardinality(ItemsOf("Delete", i))

\* run has returned: of the two regular files of the scan one was unchanged
\* and skipped, the other is the one File work item, counted with its size
\* in the FileEnd.
C34_Witness ==
    /\ gen_pc = "done" /\ Len(scan_done) = 2
    /\ \A k \in 1..2 : ~scan_done[k].is_dir /\ ~scan_done[k].is_symlink
    /\ Len(tx) = 2
    /\ tx[1].type = "File" /\ tx[1].size = DELTA_MIN_SIZE
    /\ tx[2] = [type |-> "FileEnd", total_files |-> 1,
                total_bytes |-> DELTA_MIN_SIZE]

-----------------------------------------------------------------------------
(* C35 *)

\* The entries other than the root among the first n of the scan.
NonRoot(n) ==
    SelectSeq(SubSeq(dest_entries, 1, n), LAMBDA e : e.relative_path # <<>>)

\* The frames the callback has received, in order.
RECURSIVE Handed(_)
Handed(chunks) ==
    IF chunks = <<>> THEN <<>> ELSE Head(chunks) \o Handed(Tail(chunks))

\* The frames are, in the order of the scan, one DestFileEntry for each
\* entry, with HAS_CHECKSUMS if and only if the entry is not a directory
\* and has DELTA_MIN_SIZE bytes or more.
OneFramePerEntry(frames, entries) ==
    /\ Len(frames) = Len(entries)
    /\ \A k \in DOMAIN frames :
          /\ frames[k].type = "DestFileEntry"
          /\ frames[k].path = entries[k].relative_path
          /\ "HAS_CHECKSUMS" \in frames[k].flags
                <=> ~entries[k].is_dir /\ entries[k].size >= DELTA_MIN_SIZE

\* A batch handed to the callback in the loop reached DEST_ENTRY_BATCH_SIZE
\* with its last frame; the one handed after the loop did not reach it.
FlushedWhenFull(k) ==
    /\ on_entry[k] # <<>>
    /\ BatchLen(Front(on_entry[k])) < DEST_ENTRY_BATCH_SIZE
    /\ BatchLen(on_entry[k]) < DEST_ENTRY_BATCH_SIZE
          => chunk_pc = "scanned" /\ k = Len(on_entry) - 1

\* C35: what scan_dest hands to its callback is, in the order of the scan,
\* one DestFileEntry frame for each entry but the root, then one DestFileEnd
\* with their number; a batch is handed over as soon as it has reached
\* DEST_ENTRY_BATCH_SIZE, the DestFileEnd is handed over by itself, and
\* HAS_CHECKSUMS is set exactly for the entries that are not directories and
\* have DELTA_MIN_SIZE bytes or more.
C35_ScanDestStream ==
    chunk_pc \in {"scan", "scan_err", "scanned"} =>
        /\ BatchLen(batch) < DEST_ENTRY_BATCH_SIZE
        /\ IF chunk_pc = "scanned"
           THEN /\ on_entry # <<>> /\ batch = <<>>
                /\ Last(on_entry)
                     = <<[type |-> "DestFileEnd",
                          total_files |-> Len(Handed(Front(on_entry))),
                          total_bytes |-> dest_totals.bytes,
                          len |-> 4 + 1 + 16]>>
                /\ OneFramePerEntry(Handed(Front(on_entry)),
                                    NonRoot(Len(dest_entries)))
                /\ \A k \in 1..(Len(on_entry) - 1) : FlushedWhenFull(k)
           ELSE /\ OneFramePerEntry(Handed(on_entry) \o batch, NonRoot(dest_pos))
                /\ \A k \in DOMAIN on_entry : FlushedWhenFull(k)

\* scan_dest has returned: a batch of two frames was handed over when the
\* second filled it, then the frame of the third entry, then the DestFileEnd
\* of three files by itself.
C35_Witness ==
    /\ chunk_pc = "scanned" /\ Len(on_entry) = 3
    /\ Len(on_entry[1]) = 2 /\ BatchLen(on_entry[1]) >= DEST_ENTRY_BATCH_SIZE
    /\ Len(on_entry[2]) = 1 /\ "HAS_CHECKSUMS" \notin on_entry[2][1].flags
    /\ on_entry[3][1].type = "DestFileEnd" /\ on_entry[3][1].total_files = 3

-----------------------------------------------------------------------------
(* C36 *)

\* What push writes once the Initial Exchange is over: all but its Hello.
Transferred == Tail(wrote["client"])

Sentinel == DoneMsg(0, 0, 0)

SentinelWritten == Transferred # <<>> /\ Last(Transferred) = Sentinel

\* C36: what push writes in the transfer phase is what the Sender has
\* emitted, frame by frame in the order of emission, and then the Done of
\* the client; that Done is written when the Sender has stopped and every
\* frame it emitted is written, and nothing is written after it.
C36_DrainWritesSent ==
    wrote["client"] # <<>> =>
        /\ IsPrefix(Transferred, Append(sent, Sentinel))
        /\ SentinelWritten =>
              /\ sender_result \in {"ok", "err"}
              /\ Transferred = Append(sent, Sentinel)
        /\ pc["client"] = "run" /\ ~SentinelWritten =>
              Transferred = SubSeq(sent, 1, delivered)

\* The Sender has emitted the two frames of the empty file b and the
\* FileEntry of the file that is gone, on which it failed; push has written
\* the three, then its Done, and has returned the error.
C36_Witness ==
    /\ sender_result = "err" /\ Len(sent) = 3
    /\ sent[3].type = "FileEntry" /\ sent[3].path = PathGone
    /\ Transferred = Append(sent, Sentinel)
    /\ pc["client"] = "err"

-----------------------------------------------------------------------------
(* C37 *)

\* The write of the drain loop to the transport has failed.
DrainWriteFailed ==
    /\ wrote["client"] # <<>> /\ ~SentinelWritten
    /\ result["client"] = Err("Failed to write frame")
    /\ gen_pc # "exchange"

SenderFailed == sender_result = "err"

\* Both tasks have returned, and push has returned an error.
PipelineDown ==
    /\ gen_pc \in {"done", "err"}
    /\ sender_result \in {"ok", "err"}
    /\ pc["client"] = "err" /\ ~result["client"].ok

\* C37: once a write of the drain loop to the transport has failed or the
\* Sender has failed on a work item, the Generator and the Sender both
\* return and push returns an error.
C37_FailurePropagates == (DrainWriteFailed \/ SenderFailed) ~> PipelineDown

\* The drain loop's write failed while the Generator was in its scan and the
\* Sender was waiting for a work item.
C37_Witness ==
    /\ DrainWriteFailed
    /\ gen_pc = "scan" /\ sender_result = "running"

====
